---- MODULE Spec2Model ----
(***************************************************************************)
(* A model of the ps-package build script (src/src/main.js): the calendar  *)
(* version calculator getNewVersion, the slug function, the junk purge      *)
(* removeJunk and the version data flow of main.                            *)
(*                                                                          *)
(* Strings are sequences of one-character strings, so that formatting and   *)
(* parsing are computed character by character as the script does.          *)
(***************************************************************************)
EXTENDS Integers, Sequences, FiniteSets, TLC

VARIABLES
  currentVersion,  \* the argument handed to getNewVersion by a direct caller
  clock,           \* what `new Date()` reads: [year, month]
  lastCall,        \* the most recent call of getNewVersion and its outcome
  prevCall,        \* the call before it
  files,           \* versions carried by package.json and the plugin.xml files
  archives,        \* the archives written into plugin_archive
  runs,            \* number of runs of main so far
  text,            \* the argument handed to slugify
  slugOnce,        \* slugify(text), once computed
  slugTwice,       \* slugify(slugify(text)), once computed
  fs,              \* the directory tree removeJunk works on
  fs0,             \* that tree before the first call
  order,           \* the order in which readdir lists names
  fault,           \* the filesystem operation that fails, if any
  lastJunk,        \* the outcome of the most recent call of removeJunk
  jsonFs,          \* the tree updateJsonVersionsInDir works on, with contents
  jsonEnv,         \* its listing order, failing operation and new version
  jsonCall,        \* the outcome of its most recent call
  archiveDir,      \* the archive directory pruneArchives works on
  pruneEnv,        \* its keep count and failing operation
  pruneCall,       \* the outcome of its most recent call
  mergeFs,         \* the source, build and schema trees mergePSfolders works on
  mergeEnv,        \* its failing operation
  mergeCall,       \* the outcome of its most recent call
  stage,           \* the stage main is at
  calls,           \* the filesystem operations and functions main has called
  logs,            \* what the run has logged
  disk,            \* package.json and the three plugin.xml files
  mem,             \* the values main holds: versions, psXML, awaited stream
  projectFs,       \* the source, build, schema and public trees of the run
  streams,         \* the archive output streams that are open
  outcome,         \* whether the promise of main is pending or settled
  plan             \* config.projectType

versionVars == <<currentVersion, clock, lastCall, prevCall>>
runVars == <<files, archives, runs>>
slugVars == <<text, slugOnce, slugTwice>>
junkVars == <<fs, fs0, order, fault, lastJunk>>
jsonVars == <<jsonFs, jsonEnv, jsonCall>>
pruneVars == <<archiveDir, pruneEnv, pruneCall>>
mergeVars == <<mergeFs, mergeEnv, mergeCall>>
pipeVars == <<stage, calls, logs, disk, mem, projectFs, streams, outcome, plan>>

(* the variables of the later sections, left alone by the earlier ones *)
restVars == <<jsonVars, pruneVars, mergeVars, pipeVars>>

----------------------------------------------------------------------------
(* Bounds of the exploration *)

MaxSegs == 4      \* dot-separated segments of an input version
MaxRuns == 2      \* runs of main in one behaviour
MaxLen == 5       \* characters of a text handed to slugify
MaxDepth == 2     \* levels of subdirectories below the root of a tree
MaxEntries == 4   \* entries of an archive directory, besides the full one

----------------------------------------------------------------------------
(* Character-level helpers: String(n), Number(s), padStart, split, slice *)

Digits == <<"0", "1", "2", "3", "4", "5", "6", "7", "8", "9">>

IsDigit(c) == \E i \in 1..10 : Digits[i] = c

DigitVal(c) == (CHOOSE i \in 1..10 : Digits[i] = c) - 1

AllDigits(s) == \A i \in 1..Len(s) : IsDigit(s[i])

RECURSIVE DigitsToNat(_)
DigitsToNat(s) ==
  IF s = <<>> THEN 0
  ELSE 10 * DigitsToNat(SubSeq(s, 1, Len(s) - 1)) + DigitVal(s[Len(s)])

(* String(n) for an integer n *)
RECURSIVE String(_)
String(n) ==
  IF n < 0 THEN <<"-">> \o String(0 - n)
  ELSE IF n < 10 THEN <<Digits[n + 1]>>
  ELSE String(n \div 10) \o <<Digits[(n % 10) + 1]>>

(* The value a destructured element that is missing has: undefined *)
Undefined == <<"undefined">>

NaN == [nan |-> TRUE, val |-> 0]

(* Number(s) for a string over digits, "-" and letters; Number(undefined)  *)
(* is NaN, Number("") is 0, Number("-0") compares equal to 0.               *)
Number(s) ==
  IF s = Undefined THEN NaN
  ELSE IF s = <<>> THEN [nan |-> FALSE, val |-> 0]
  ELSE IF AllDigits(s) THEN [nan |-> FALSE, val |-> DigitsToNat(s)]
  ELSE IF s[1] = "-" /\ Len(s) > 1 /\ AllDigits(Tail(s))
    THEN [nan |-> FALSE, val |-> 0 - DigitsToNat(Tail(s))]
  ELSE NaN

(* Variant: no padding *)
padStart2_none(s) == s

(* s.padStart(2, '0') *)
RECURSIVE padStart2(_)
padStart2(s) == IF Len(s) >= 2 THEN s ELSE padStart2(<<"0">> \o s)

(* s.slice(-2) *)
sliceLast2(s) == IF Len(s) <= 2 THEN s ELSE SubSeq(s, Len(s) - 1, Len(s))

(* s.split(sep) *)
RECURSIVE split(_, _)
split(s, sep) ==
  IF \A i \in 1..Len(s) : s[i] # sep THEN <<s>>
  ELSE LET k == CHOOSE i \in 1..Len(s) :
                   s[i] = sep /\ \A j \in 1..(i - 1) : s[j] # sep
       IN <<SubSeq(s, 1, k - 1)>> \o split(SubSeq(s, k + 1, Len(s)), sep)

(* arr.join(sep) *)
RECURSIVE join(_, _)
join(arr, sep) ==
  IF arr = <<>> THEN <<>>
  ELSE IF Len(arr) = 1 THEN arr[1]
  ELSE arr[1] \o <<sep>> \o join(Tail(arr), sep)

(* const [year, month, patch] = arr: a missing element is undefined *)
element(arr, i) == IF i <= Len(arr) THEN arr[i] ELSE Undefined

----------------------------------------------------------------------------
(* getNewVersion, src/src/main.js 38-73 *)

(* Variant: the year is not reduced to two digits *)
currentYearOf_fullYear(now) == now.year

(* now.getFullYear() % 100 *)
currentYearOf(now) == now.year % 100

(* now.getMonth() + 1 *)
currentMonthOf(now) == now.month

(* Variant: the patch is not incremented *)
bumpVersion_noIncrement(year, month, patch, currentYear, currentMonth) ==
  IF year # currentYear THEN <<currentYear, currentMonth, 1>>
  ELSE IF month # currentMonth THEN <<year, currentMonth, 1>>
  ELSE <<year, month, patch>>

(* Variant: a month change does not reset the patch *)
bumpVersion_noMonthReset(year, month, patch, currentYear, currentMonth) ==
  IF year # currentYear THEN <<currentYear, currentMonth, 1>>
  ELSE IF month # currentMonth THEN <<year, currentMonth, patch + 1>>
  ELSE <<year, month, patch + 1>>

(* lines 49-63: the new (year, month, patch) *)
bumpVersion(year, month, patch, currentYear, currentMonth) ==
  IF year # currentYear THEN <<currentYear, currentMonth, 1>>
  ELSE IF month # currentMonth THEN <<year, currentMonth, 1>>
  ELSE <<year, month, patch + 1>>

(* line 65: the template literal *)
formatVersion(v) ==
  String(v[1]) \o <<".">> \o padStart2(String(v[2]))
                 \o <<".">> \o padStart2(String(v[3]))

(* lines 66-71: the catch block *)
fallbackVersion(now) ==
  sliceLast2(String(now.year)) \o <<".">>
    \o padStart2(String(now.month)) \o <<".">> \o <<"0", "1">>

(* lines 40-43: does the try block throw *)
parseThrows(cv) ==
  \/ cv = Undefined
  \/ LET arr == split(cv, ".")
     IN \E i \in 1..3 : Number(element(arr, i)).nan

getNewVersion(cv, now) ==
  IF parseThrows(cv)
  THEN [result |-> fallbackVersion(now), warned |-> TRUE]
  ELSE LET arr == split(cv, ".")
           year == Number(arr[1]).val
           month == Number(arr[2]).val
           patch == Number(arr[3]).val
       IN [result |-> formatVersion(bumpVersion(year, month, patch,
                                    currentYearOf(now), currentMonthOf(now))),
           warned |-> FALSE]

----------------------------------------------------------------------------
(* The version data flow of main, src/src/main.js 388-419, through         *)
(* updatePackageVersions (274-292), writeXmlVariants (236-266) and the     *)
(* archive names (403-408).                                                 *)

(* The steps of a run that can fail, in the order main reaches them *)
StageOrder ==
  <<"ReadDescriptor", "EnsureDirectories", "WritePackageJson", "ReadManifest",
    "WriteRootManifest", "WriteBuildManifest", "WriteSchemaManifest",
    "PrimaryArchive", "SchemaArchive">>

FailPoints == {"none"} \cup {StageOrder[i] : i \in 1..Len(StageOrder)}

IndexOf(step) == CHOOSE i \in 1..Len(StageOrder) : StageOrder[i] = step

(* Does the run complete `step` when its failure, if any, is at failAt.    *)
(* Every failure ends the run (main's catch rethrows) except the one of the *)
(* schema manifest, which writeXmlVariants catches and logs.                *)
completes(step, failAt) ==
  \/ failAt = "none"
  \/ IndexOf(step) < IndexOf(failAt)
  \/ failAt = "WriteSchemaManifest" /\ step # "WriteSchemaManifest"

(* `${slugName}-${newVersion}.zip` and `DATA-${zipFileName}`: the part of  *)
(* the name that carries the version                                        *)
archiveName(prefix, version) == [prefix |-> prefix, version |-> version]

(* One run of main on the files f and archive directory a, the clock       *)
(* reading now, failing at failAt                                           *)
main(f, a, now, failAt) ==
  LET newVersion == getNewVersion(f.pkg, now).result
      put(step, old) == IF completes(step, failAt) THEN newVersion ELSE old
  IN [files |-> [pkg |-> put("WritePackageJson", f.pkg),
                 root |-> put("WriteRootManifest", f.root),
                 build |-> put("WriteBuildManifest", f.build),
                 schema |-> put("WriteSchemaManifest", f.schema)],
      archives |-> a
         \cup (IF completes("PrimaryArchive", failAt)
               THEN {archiveName("", newVersion)} ELSE {})
         \cup (IF completes("SchemaArchive", failAt)
               THEN {archiveName("DATA-", newVersion)} ELSE {}),
      rejected |-> ~ completes("SchemaArchive", failAt)]

----------------------------------------------------------------------------
(* slugify, src/src/main.js 81-84: text.replace(/\s*-\s*|\s+/g, '_') *)

(* \s, on the alphabet of the texts *)
IsSpace(c) == c = " "

(* the length of the longest run of whitespace that starts at s[i] *)
RECURSIVE spaceRun(_, _)
spaceRun(s, i) ==
  IF i <= Len(s) /\ IsSpace(s[i]) THEN 1 + spaceRun(s, i + 1) ELSE 0

(* The length of the match of /\s*-\s*|\s+/ at position i, 0 for no match. *)
(* The first alternative takes all the whitespace and needs a hyphen after  *)
(* it (giving whitespace back cannot put a hyphen there); when it fails the *)
(* second alternative takes the whitespace (at least one character).        *)
matchAt(s, i) ==
  LET lead == spaceRun(s, i)
      h == i + lead
  IN IF h <= Len(s) /\ s[h] = "-"
     THEN lead + 1 + spaceRun(s, h + 1)
     ELSE lead

(* replace with the g flag: every match, left to right *)
RECURSIVE replaceAllFrom(_, _)
replaceAllFrom(s, i) ==
  IF i > Len(s) THEN <<>>
  ELSE IF matchAt(s, i) > 0
    THEN <<"_">> \o replaceAllFrom(s, i + matchAt(s, i))
    ELSE <<s[i]>> \o replaceAllFrom(s, i + 1)

(* replace without the g flag: the first match only *)
RECURSIVE replaceFirstFrom(_, _)
replaceFirstFrom(s, i) ==
  IF i > Len(s) THEN <<>>
  ELSE IF matchAt(s, i) > 0
    THEN <<"_">> \o SubSeq(s, i + matchAt(s, i), Len(s))
    ELSE <<s[i]>> \o replaceFirstFrom(s, i + 1)

(* Variant: the regular expression lacks the g flag *)
slugify_firstOnly(t) == replaceFirstFrom(t, 1)

slugify(t) == replaceAllFrom(t, 1)

----------------------------------------------------------------------------
(* removeJunk, src/src/main.js 90-110 *)

(* config.junkFiles, line 24 *)
junkFiles == {".DS_Store", "Thumbs.db", "robots.txt", "sitemap.xml", "ssr-manifest.json"}

(* the directory removeJunk is called on *)
Root == <<"dist">>

NoFault == [op |-> "none", path |-> <<>>, code |-> "none"]

(* does operation op on path p fail, and with which code *)
failure(op, p, tree, flt) ==
  IF p \notin (tree.dirs \cup tree.files) THEN "ENOENT"
  ELSE IF flt.op = op /\ flt.path = p THEN flt.code
  ELSE "none"

baseName(p) == p[Len(p)]

(* fsPromises.readdir(dir): the names of the entries of dir, in the order  *)
(* the listing returns them                                                 *)
RECURSIVE listingFrom(_, _, _)
listingFrom(dir, tree, i) ==
  IF i > Len(order) THEN <<>>
  ELSE (IF Append(dir, order[i]) \in (tree.dirs \cup tree.files)
        THEN <<order[i]>> ELSE <<>>) \o listingFrom(dir, tree, i + 1)

readdir(dir, tree) == listingFrom(dir, tree, 1)

(* the catch block, lines 104-109: only a code other than ENOENT is logged *)
catchJunk(dir, code, st) ==
  [st EXCEPT !.raised = @ \cup {[dir |-> dir, code |-> code]},
             !.errors = IF code # "ENOENT" THEN @ \cup {dir} ELSE @]

RECURSIVE removeJunkIn(_, _), walkEntries(_, _, _), enterDirectory(_, _)

(* Variant: subdirectories are not entered *)
enterDirectory_skip(fullPath, st) == st

(* line 98: await removeJunk(fullPath) *)
enterDirectory(fullPath, st) == removeJunkIn(fullPath, st)

(* the for loop, lines 93-103: the state it leaves and the error it throws *)
walkEntries(dir, entries, st) ==
  IF entries = <<>> THEN [st |-> st, thrown |-> "none"]
  ELSE LET file == Head(entries)
           fullPath == Append(dir, file)
           visited == [st EXCEPT !.visited = @ \cup {fullPath}]
       IN IF failure("stat", fullPath, st.tree, fault) # "none"
          THEN [st |-> visited, thrown |-> failure("stat", fullPath, st.tree, fault)]
          ELSE IF fullPath \in st.tree.dirs
          THEN walkEntries(dir, Tail(entries), enterDirectory(fullPath, visited))
          ELSE IF file \in junkFiles
          THEN IF failure("unlink", fullPath, st.tree, fault) # "none"
               THEN [st |-> visited,
                     thrown |-> failure("unlink", fullPath, st.tree, fault)]
               ELSE walkEntries(dir, Tail(entries),
                      [visited EXCEPT !.tree.files = @ \ {fullPath},
                                      !.deleted = @ \cup {fullPath}])
          ELSE walkEntries(dir, Tail(entries), visited)

(* removeJunk(dir) on the state st: everything is inside the try block, so *)
(* the call always returns normally                                         *)
removeJunkIn(dir, st) ==
  IF failure("readdir", dir, st.tree, fault) # "none"
  THEN catchJunk(dir, failure("readdir", dir, st.tree, fault), st)
  ELSE LET r == walkEntries(dir, readdir(dir, st.tree), st)
       IN IF r.thrown = "none" THEN r.st ELSE catchJunk(dir, r.thrown, r.st)

removeJunk(dir, tree) ==
  removeJunkIn(dir, [tree |-> tree, deleted |-> {}, errors |-> {},
                     raised |-> {}, visited |-> {}])

----------------------------------------------------------------------------
(* updateJsonVersionsInDir, src/main.js lines 193-229 *)

(* A parsed JSON value: a string, null, an object or an array.  An object  *)
(* is the sequence of its members in insertion order; an array is the       *)
(* sequence of its elements, keyed by their indices.                         *)
Str(s) == [t |-> "str", s |-> s, kids |-> <<>>]

Null == [t |-> "null", s |-> <<>>, kids |-> <<>>]

KV(k, v) == [key |-> k, val |-> v]

Obj(members) == [t |-> "obj", s |-> <<>>, kids |-> members]

Arr(elements) ==
  [t |-> "arr", s |-> <<>>,
   kids |-> [i \in 1..Len(elements) |-> KV(ToString(i - 1), elements[i])]]

(* typeof x === 'object' && x !== null *)
isObject(x) == x.t \in {"obj", "arr"}

RECURSIVE updateVersionInObject(_, _)

(* Variant: only the members of the top-level value are looked at *)
updateVersionInObject_topLevel(obj, newVersion) ==
  [obj EXCEPT !.kids =
     [i \in 1..Len(obj.kids) |->
        IF obj.kids[i].key = "version"
        THEN KV("version", Str(newVersion))
        ELSE obj.kids[i]]]

(* lines 208-215: every enumerable key of obj; a key named version gets    *)
(* the new version, any other object-valued key is descended into           *)
updateVersionInObject(obj, newVersion) ==
  [obj EXCEPT !.kids =
     [i \in 1..Len(obj.kids) |->
        IF obj.kids[i].key = "version"
        THEN KV("version", Str(newVersion))
        ELSE IF isObject(obj.kids[i].val)
        THEN KV(obj.kids[i].key,
                updateVersionInObject(obj.kids[i].val, newVersion))
        ELSE obj.kids[i]]]

(* path.extname(file): from the last dot of the name to its end, empty     *)
(* when there is no dot or the only dot starts the name                     *)
RECURSIVE lastDot(_, _)
lastDot(name, i) ==
  IF i = 0 THEN 0 ELSE IF name[i] = "." THEN i ELSE lastDot(name, i - 1)

extname(name) ==
  IF lastDot(name, Len(name)) <= 1 THEN <<>>
  ELSE SubSeq(name, lastDot(name, Len(name)), Len(name))

dotJson == <<".", "j", "s", "o", "n">>

(* the directory of page-cataloging files, <src>/powerschool/pagecataloging *)
JsonRoot == <<"pagecataloging">>

(* fsPromises.readdir(dir) under the listing order ord *)
RECURSIVE listingIn(_, _, _, _)
listingIn(dir, tree, ord, i) ==
  IF i > Len(ord) THEN <<>>
  ELSE (IF Append(dir, ord[i]) \in (tree.dirs \cup tree.files)
        THEN <<ord[i]>> ELSE <<>>) \o listingIn(dir, tree, ord, i + 1)

(* Variant: a file that cannot be read, parsed or written ends the walk *)
rewriteJson_noCatch(fullPath, env, st) ==
  IF failure("readFile", fullPath, st.tree, env.fault) # "none"
  THEN [st |-> st, thrown |-> failure("readFile", fullPath, st.tree, env.fault)]
  ELSE IF ~ st.tree.content[fullPath].parses
  THEN [st |-> st, thrown |-> "SyntaxError"]
  ELSE IF failure("writeFile", fullPath, st.tree, env.fault) # "none"
  THEN [st |-> st, thrown |-> failure("writeFile", fullPath, st.tree, env.fault)]
  ELSE [st |-> [st EXCEPT
                  !.tree.content[fullPath].doc =
                     updateVersionInObject(@, env.newVersion),
                  !.written = @ \cup {fullPath}],
        thrown |-> "none"]

(* lines 203-221, the try block of one .json file: read, parse, update,    *)
(* write; whatever is thrown is caught and logged as a warning               *)
rewriteJson(fullPath, env, st) ==
  IF \/ failure("readFile", fullPath, st.tree, env.fault) # "none"
     \/ ~ st.tree.content[fullPath].parses
     \/ failure("writeFile", fullPath, st.tree, env.fault) # "none"
  THEN [st |-> [st EXCEPT !.warned = @ \cup {fullPath}], thrown |-> "none"]
  ELSE [st |-> [st EXCEPT
                  !.tree.content[fullPath].doc =
                     updateVersionInObject(@, env.newVersion),
                  !.written = @ \cup {fullPath}],
        thrown |-> "none"]

(* lines 224-228, the outer catch: only a code other than ENOENT is logged *)
catchJson(dir, code, st) ==
  IF code # "ENOENT" THEN [st EXCEPT !.errors = @ \cup {dir}] ELSE st

RECURSIVE updateJsonIn(_, _, _), jsonEntries(_, _, _, _)

(* the for loop, lines 196-223 *)
jsonEntries(dir, entries, env, st) ==
  IF entries = <<>> THEN [st |-> st, thrown |-> "none"]
  ELSE LET file == Head(entries)
           fullPath == Append(dir, file)
       IN IF failure("stat", fullPath, st.tree, env.fault) # "none"
          THEN [st |-> st,
                thrown |-> failure("stat", fullPath, st.tree, env.fault)]
          ELSE IF fullPath \in st.tree.dirs
          THEN jsonEntries(dir, Tail(entries), env,
                           updateJsonIn(fullPath, env, st))
          ELSE IF extname(file) = dotJson
          THEN LET r == rewriteJson(fullPath, env, st)
               IN IF r.thrown # "none" THEN r
                  ELSE jsonEntries(dir, Tail(entries), env, r.st)
          ELSE jsonEntries(dir, Tail(entries), env, st)

(* updateJsonVersionsInDir(dir, newVersion) on the state st: everything is *)
(* inside the try block, so the call always returns normally                 *)
updateJsonIn(dir, env, st) ==
  IF failure("readdir", dir, st.tree, env.fault) # "none"
  THEN catchJson(dir, failure("readdir", dir, st.tree, env.fault), st)
  ELSE LET r == jsonEntries(dir, listingIn(dir, st.tree, env.order, 1), env, st)
       IN IF r.thrown = "none" THEN r.st ELSE catchJson(dir, r.thrown, r.st)

updateJsonVersionsInDir(dir, env, tree) ==
  updateJsonIn(dir, env, [tree |-> tree, written |-> {}, warned |-> {},
                          errors |-> {}])

----------------------------------------------------------------------------
(* pruneArchives, src/main.js lines 297-326 *)

(* config.archivesToKeep, line 26 *)
archivesToKeep == 10

(* config.archiveDir, line 18 *)
archivePath == <<"plugin_archive">>

(* The archive directory: whether it exists, and its entries in the order  *)
(* readdir lists them, each with its modification time                      *)
NoArchiveDir == [exists |-> FALSE, entries |-> <<>>]

(* does operation op on the entry named file fail, and with which code *)
entryFailure(op, file, flt) ==
  IF flt.op = op /\ flt.path = <<file>> THEN flt.code ELSE "none"

(* the first entry of the listing whose stat fails, if any: Promise.all    *)
(* rejects with it                                                          *)
RECURSIVE statAll(_, _)
statAll(entries, flt) ==
  IF entries = <<>> THEN "none"
  ELSE IF entryFailure("stat", Head(entries).file, flt) # "none"
  THEN entryFailure("stat", Head(entries).file, flt)
  ELSE statAll(Tail(entries), flt)

(* e placed into a sequence sorted by descending mtimeMs, behind the       *)
(* entries of the same time (Array.prototype.sort is stable)                *)
RECURSIVE insertByMtime(_, _)
insertByMtime(e, sorted) ==
  IF sorted = <<>> THEN <<e>>
  ELSE IF Head(sorted).mtimeMs >= e.mtimeMs
  THEN <<Head(sorted)>> \o insertByMtime(e, Tail(sorted))
  ELSE <<e>> \o sorted

RECURSIVE sortFrom(_, _, _)
sortFrom(entries, i, sorted) ==
  IF i > Len(entries) THEN sorted
  ELSE sortFrom(entries, i + 1, insertByMtime(entries[i], sorted))

(* Variant: the entries stay in listing order *)
sortNewestFirst_unsorted(entries) == entries

(* line 308: filesWithStats.sort((a, b) => b.mtimeMs - a.mtimeMs) *)
sortNewestFirst(entries) == sortFrom(entries, 1, <<>>)

(* Array.prototype.slice(start) *)
slice(s, start) ==
  IF start >= Len(s) THEN <<>> ELSE SubSeq(s, start + 1, Len(s))

removeEntry(entries, file) == SelectSeq(entries, LAMBDA e : e.file # file)

(* the for loop, lines 313-318: the entries are removed one after the      *)
(* other; a removal that fails throws out of the loop                       *)
RECURSIVE deleteEntries(_, _, _)
deleteEntries(toDelete, flt, st) ==
  IF toDelete = <<>> THEN [st |-> st, thrown |-> "none"]
  ELSE IF entryFailure("rm", Head(toDelete).file, flt) # "none"
  THEN [st |-> st, thrown |-> entryFailure("rm", Head(toDelete).file, flt)]
  ELSE deleteEntries(Tail(toDelete), flt,
         [st EXCEPT !.dir.entries = removeEntry(@, Head(toDelete).file),
                    !.deleted = @ \cup {Head(toDelete).file}])

(* lines 320-325, the catch: only a code other than ENOENT is logged *)
catchPrune(code, st) ==
  IF code # "ENOENT" THEN [st EXCEPT !.errors = @ \cup {code}] ELSE st

(* pruneArchives() with config.archivesToKeep = keep *)
pruneArchives(dir, keep, flt) ==
  LET st0 == [dir |-> dir, deleted |-> {}, errors |-> {}]
  IN IF ~ dir.exists THEN catchPrune("ENOENT", st0)
     ELSE IF flt.op = "readdir" /\ flt.path = archivePath
     THEN catchPrune(flt.code, st0)
     ELSE IF statAll(dir.entries, flt) # "none"
     THEN catchPrune(statAll(dir.entries, flt), st0)
     ELSE LET filesToDelete == slice(sortNewestFirst(dir.entries), keep)
              r == deleteEntries(filesToDelete, flt, st0)
          IN IF r.thrown = "none" THEN r.st ELSE catchPrune(r.thrown, r.st)

----------------------------------------------------------------------------
(* mergePSfolders, src/main.js lines 116-143 *)

(* config, lines 17-22 *)
buildDir == <<"dist">>

schemaDir == <<"schema">>

powerSchoolSourceDir == <<"src", "powerschool">>

psFolders ==
  <<"permissions_root", "user_schema_root", "queries_root", "WEB_ROOT",
    "pagecataloging", "MessageKeys">>

(* A tree with contents: directories, files, and what each file holds *)
EmptyTree == [dirs |-> {}, files |-> {}, content |-> <<>>]

isPrefix(d, p) == Len(d) <= Len(p) /\ SubSeq(p, 1, Len(d)) = d

(* the directories from the top down to p *)
ancestors(p) == {SubSeq(p, 1, k) : k \in 1..Len(p)}

(* fsPromises.rm(p, { recursive: true, force: true }) *)
rm(p, tree) ==
  [dirs |-> {q \in tree.dirs : ~ isPrefix(p, q)},
   files |-> {q \in tree.files : ~ isPrefix(p, q)},
   content |-> [q \in {q \in tree.files : ~ isPrefix(p, q)} |-> tree.content[q]]]

rebase(q, src, dst) == dst \o SubSeq(q, Len(src) + 1, Len(q))

(* fsPromises.cp(src, dst, { recursive: true }): the directory src is      *)
(* copied onto dst, which is created with its parents when missing; files   *)
(* of dst at the paths of source files are overwritten, the others stay      *)
cp(src, dst, tree) ==
  LET copied == {q \in tree.files : isPrefix(src, q)}
      all == tree.files \cup {rebase(q, src, dst) : q \in copied}
  IN [dirs |-> tree.dirs \cup ancestors(dst)
                 \cup {rebase(q, src, dst) : q \in {d \in tree.dirs : isPrefix(src, d)}},
      files |-> all,
      content |-> [p \in all |->
                     IF \E q \in copied : rebase(q, src, dst) = p
                     THEN tree.content[CHOOSE q \in copied : rebase(q, src, dst) = p]
                     ELSE tree.content[p]]]

(* line 119 *)
sourcePath(folder) == Append(powerSchoolSourceDir, folder)

(* Variant: every folder goes to the build directory *)
destPath_build(folder) == Append(buildDir, folder)

(* lines 121-123 *)
destPath(folder) ==
  IF folder = "user_schema_root" \/ folder = "MessageKeys"
  THEN Append(schemaDir, folder)
  ELSE Append(buildDir, folder)

(* Variant: the destination of every folder is cleared *)
clearsDestination_always(folder) == TRUE

(* line 129: the destination is cleared unless the folder is WEB_ROOT *)
clearsDestination(folder) == folder # "WEB_ROOT"

(* does operation op on path p fail under flt; force and recursive make a  *)
(* missing path no failure                                                  *)
forcedFailure(op, p, flt) ==
  IF flt.op = op /\ flt.path = p THEN flt.code ELSE "none"

(* Variant: the catch logs every error, ENOENT included *)
catchMerge_logAll(folder, code, st) == [st EXCEPT !.errors = @ \cup {folder}]

(* lines 134-141, the catch: a code other than ENOENT is logged *)
catchMerge(folder, code, st) ==
  IF code = "ENOENT" THEN st ELSE [st EXCEPT !.errors = @ \cup {folder}]

(* lines 125-141, one folder of the list *)
mergeFolder(folder, flt, st) ==
  IF failure("access", sourcePath(folder), st.tree, flt) # "none"
  THEN catchMerge(folder, failure("access", sourcePath(folder), st.tree, flt), st)
  ELSE IF clearsDestination(folder)
          /\ forcedFailure("rm", destPath(folder), flt) # "none"
  THEN catchMerge(folder, forcedFailure("rm", destPath(folder), flt), st)
  ELSE LET cleared == IF clearsDestination(folder)
                      THEN [st EXCEPT !.tree = rm(destPath(folder), @)]
                      ELSE st
       IN IF forcedFailure("cp", sourcePath(folder), flt) # "none"
          THEN catchMerge(folder, forcedFailure("cp", sourcePath(folder), flt),
                          cleared)
          ELSE [cleared EXCEPT
                  !.tree = cp(sourcePath(folder), destPath(folder), @),
                  !.merged = @ \cup {folder}]

(* the for loop, lines 118-142 *)
RECURSIVE mergeFrom(_, _, _)
mergeFrom(i, flt, st) ==
  IF i > Len(psFolders) THEN st
  ELSE mergeFrom(i + 1, flt, mergeFolder(psFolders[i], flt, st))

mergePSfolders(tree, flt) ==
  mergeFrom(1, flt, [tree |-> tree, merged |-> {}, errors |-> {}])

----------------------------------------------------------------------------
(* The stages of main, src/main.js lines 388-419, and the functions they   *)
(* call                                                                     *)

Stages ==
  <<"ReadDescriptor", "ComputeVersion", "EnsureDirectories",
    "UpdateManifestsAndVersion", "PrepareBuildTree", "FrameworkCopy",
    "BuildPrimaryArchive", "BuildSchemaArchive", "PruneArchives", "Done">>

stageIndex(s) == CHOOSE i \in 1..Len(Stages) : Stages[i] = s

(* the stage main goes on with when the stage s has returned *)
nextStage(s) == Stages[stageIndex(s) + 1]

(* the files the run reads and writes by name *)
packageJson == <<"package.json">>

rootXml == <<"plugin.xml">>

buildXml == Append(buildDir, "plugin.xml")

schemaXml == Append(schemaDir, "plugin.xml")

svelteSourceDir == <<"public", "build">>

indexPath == buildDir \o <<"WEB_ROOT", "index.html">>

(* A manifest, on disk or parsed: version and name attributes of the       *)
(* plugin element, and whether it has an access_request element             *)
NoManifest == [present |-> FALSE, version |-> <<>>, name |-> <<>>, access |-> FALSE]

fails(op, p, flt) == flt.op = op /\ flt.path = p

Log(level, msg) == [level |-> level, msg |-> msg]

Call(op, p) == [op |-> op, path |-> p]

(* Variant: nothing is cut *)
substring_none(s, n) == s

(* String.prototype.substring(0, n) *)
substring(s, n) == IF Len(s) <= n THEN s ELSE SubSeq(s, 1, n)

(* line 250: the longest name the schema manifest keeps *)
nameLimit == 35

dataSuffix == <<" ", "D", "A", "T", "A">>

(* lines 249-255: the parsed manifest turned into the one of the DATA      *)
(* plugin                                                                   *)
dataVariant(psXML) ==
  [psXML EXCEPT !.name = substring(@, nameLimit) \o dataSuffix,
                !.access = FALSE]

(* writeXmlVariants(psXML, newVersion), lines 236-266: what it leaves on   *)
(* disk and in psXML, what it logs, and what it throws                      *)
writeXmlVariants(psXML, newVersion, d, flt) ==
  LET x == [psXML EXCEPT !.version = newVersion]
      originalName == x.name
      warned == IF Len(originalName) > nameLimit
                THEN <<Log("warn", "Plugin name truncated for schema XML")>>
                ELSE <<>>
      updated == <<Log("info", "Updated plugin.xml")>>
  IN IF fails("writeFile", rootXml, flt)
     THEN [disk |-> d, psXML |-> x, logs |-> <<>>,
           calls |-> <<Call("writeFile", rootXml)>>, thrown |-> flt]
     ELSE IF fails("writeFile", buildXml, flt)
     THEN [disk |-> [d EXCEPT !.root = x], psXML |-> x, logs |-> <<>>,
           calls |-> <<Call("writeFile", rootXml), Call("writeFile", buildXml)>>,
           thrown |-> flt]
     ELSE IF fails("writeFile", schemaXml, flt)
     THEN [disk |-> [d EXCEPT !.root = x, !.build = x],
           psXML |-> dataVariant(x),
           logs |-> updated \o warned
                      \o <<Log("error", "Could not create schema XML variant")>>,
           calls |-> <<Call("writeFile", rootXml), Call("writeFile", buildXml),
                       Call("writeFile", schemaXml)>>,
           thrown |-> NoFault]
     ELSE [disk |-> [d EXCEPT !.root = x, !.build = x, !.schema = dataVariant(x)],
           psXML |-> [dataVariant(x) EXCEPT !.name = originalName],
           logs |-> updated \o warned
                      \o <<Log("info", "Created schema-only plugin.xml")>>,
           calls |-> <<Call("writeFile", rootXml), Call("writeFile", buildXml),
                       Call("writeFile", schemaXml)>>,
           thrown |-> NoFault]

(* the page-cataloging directory, line 288 *)
pageCatalogingDir == Append(powerSchoolSourceDir, "pagecataloging")

(* updatePackageVersions(newVersion), lines 274-292 *)
updatePackageVersions(newVersion, d, tree, ord, flt) ==
  LET r0 == [disk |-> d, tree |-> tree, psXML |-> NoManifest, logs |-> <<>>,
             calls |-> <<Call("readFile", packageJson)>>, thrown |-> NoFault]
      d1 == [d EXCEPT !.pkg = newVersion]
      r1 == [r0 EXCEPT !.disk = d1,
                       !.logs = <<Log("info", "Updated package.json")>>,
                       !.calls = @ \o <<Call("writeFile", packageJson),
                                        Call("readFile", rootXml)>>]
  IN IF fails("readFile", packageJson, flt) \/ fails("parse", packageJson, flt)
     THEN [r0 EXCEPT !.thrown = flt]
     ELSE IF fails("writeFile", packageJson, flt)
     THEN [r0 EXCEPT !.calls = @ \o <<Call("writeFile", packageJson)>>,
                     !.thrown = flt]
     ELSE IF ~ d.root.present
     THEN [r1 EXCEPT !.thrown = [op |-> "readFile", path |-> rootXml,
                                 code |-> "ENOENT"]]
     ELSE IF fails("readFile", rootXml, flt) \/ fails("parse", rootXml, flt)
     THEN [r1 EXCEPT !.thrown = flt]
     ELSE LET w == writeXmlVariants(d.root, newVersion, d1, flt)
              j == updateJsonVersionsInDir(pageCatalogingDir,
                     [order |-> ord, fault |-> flt, newVersion |-> newVersion],
                     tree)
          IN IF w.thrown # NoFault
             THEN [r1 EXCEPT !.disk = w.disk, !.psXML = w.psXML,
                             !.calls = @ \o w.calls, !.thrown = w.thrown]
             ELSE [disk |-> w.disk, tree |-> j.tree, psXML |-> w.psXML,
                   logs |-> r1.logs \o w.logs
                     \o [i \in 1..Cardinality(j.warned) |->
                           Log("warn", "Could not parse or update JSON file")]
                     \o [i \in 1..Cardinality(j.errors) |->
                           Log("error", "Error updating JSON versions")],
                   calls |-> r1.calls \o w.calls
                               \o <<Call("updateJsonVersionsInDir",
                                         pageCatalogingDir)>>,
                   thrown |-> NoFault]

(* ensureDirectoriesExist(), lines 377-383: mkdir -p of the build, archive *)
(* and schema directories, in this order; a failing mkdir throws            *)
ensureDirectoriesExist(tree, archive, flt) ==
  IF fails("mkdir", buildDir, flt)
  THEN [tree |-> tree, archive |-> archive,
        calls |-> <<Call("mkdir", buildDir)>>, thrown |-> flt]
  ELSE IF fails("mkdir", archivePath, flt)
  THEN [tree |-> [tree EXCEPT !.dirs = @ \cup {buildDir}], archive |-> archive,
        calls |-> <<Call("mkdir", buildDir), Call("mkdir", archivePath)>>,
        thrown |-> flt]
  ELSE [tree |-> [tree EXCEPT !.dirs =
                    @ \cup {buildDir}
                      \cup (IF fails("mkdir", schemaDir, flt) THEN {}
                            ELSE {schemaDir})],
        archive |-> [archive EXCEPT !.exists = TRUE],
        calls |-> <<Call("mkdir", buildDir), Call("mkdir", archivePath),
                    Call("mkdir", schemaDir)>>,
        thrown |-> IF fails("mkdir", schemaDir, flt) THEN flt ELSE NoFault]

(* prepareBuildDirectory(), lines 331-348: merge, purge of junk, removal   *)
(* of the template index.html; nothing is thrown                            *)
prepareBuildDirectory(tree) ==
  LET m == mergePSfolders(tree, fault)
      j == removeJunk(buildDir, m.tree)
      code == failure("unlink", indexPath, j.tree, fault)
  IN [tree |-> IF code = "none"
               THEN [j.tree EXCEPT !.files = @ \ {indexPath}]
               ELSE j.tree,
      logs |-> [i \in 1..Cardinality(m.errors) |->
                  Log("error", "Error merging folder")]
               \o [i \in 1..Cardinality(j.errors) |->
                     Log("error", "Error during junk removal")]
               \o (IF code = "none"
                   THEN <<Log("info", "Deleted template file")>>
                   ELSE IF code # "ENOENT"
                   THEN <<Log("error", "Error deleting index.html")>>
                   ELSE <<>>),
      calls |-> <<Call("mergePSfolders", powerSchoolSourceDir),
                  Call("removeJunk", buildDir), Call("unlink", indexPath)>>]

NotCopied == [done |-> FALSE, to |-> <<>>]

(* Variant: the copy is attempted whatever the project type *)
copySvelteBuildContents_always(projectType, psXML, tree, flt) ==
  IF failure("access", svelteSourceDir, tree, flt) # "none"
  THEN [copied |-> NotCopied,
        logs |-> <<Log("warn", "Svelte build output not found")>>,
        calls |-> <<Call("access", svelteSourceDir)>>]
  ELSE [copied |-> [done |-> TRUE, to |-> slugify(psXML.name)],
        logs |-> <<Log("info", "Copied Svelte build contents")>>,
        calls |-> <<Call("access", svelteSourceDir), Call("cp", svelteSourceDir)>>]

(* copySvelteBuildContents(psXML), lines 354-372: where public/build was   *)
(* copied to below dist/WEB_ROOT, if it was; nothing is thrown              *)
copySvelteBuildContents(projectType, psXML, tree, flt) ==
  IF projectType # "svelte"
  THEN [copied |-> NotCopied, logs |-> <<>>, calls |-> <<>>]
  ELSE IF failure("access", svelteSourceDir, tree, flt) # "none"
  THEN [copied |-> NotCopied,
        logs |-> IF failure("access", svelteSourceDir, tree, flt) = "ENOENT"
                 THEN <<Log("warn", "Svelte build output not found")>>
                 ELSE <<Log("error", "Error copying Svelte build contents")>>,
        calls |-> <<Call("access", svelteSourceDir)>>]
  ELSE IF forcedFailure("cp", svelteSourceDir, flt) # "none"
  THEN [copied |-> NotCopied,
        logs |-> IF forcedFailure("cp", svelteSourceDir, flt) = "ENOENT"
                 THEN <<Log("warn", "Svelte build output not found")>>
                 ELSE <<Log("error", "Error copying Svelte build contents")>>,
        calls |-> <<Call("access", svelteSourceDir), Call("cp", svelteSourceDir)>>]
  ELSE [copied |-> [done |-> TRUE, to |-> slugify(psXML.name)],
        logs |-> <<Log("info", "Copied Svelte build contents")>>,
        calls |-> <<Call("access", svelteSourceDir), Call("cp", svelteSourceDir)>>]

dotZip == <<".", "z", "i", "p">>

(* line 406: `${slugName}-${newVersion}.zip` *)
zipFileName(slugName, newVersion) == slugName \o <<"-">> \o newVersion \o dotZip

(* Variant: the schema archive has the name of the primary one *)
schemaZipFileName_same(zipName) == zipName

(* line 407: `DATA-${zipFileName}` *)
schemaZipFileName(zipName) == <<"D", "A", "T", "A", "-">> \o zipName

(* Variant: createPluginZip returns once the archive is finalized, with    *)
(* the pipeline still running                                               *)
awaitsPipeline_not == FALSE

(* line 177: createPluginZip awaits the pipeline of archive and output *)
awaitsPipeline == TRUE

(* the modification time of a file written now: later than every entry's *)
RECURSIVE newestMtime(_)
newestMtime(entries) ==
  IF entries = <<>> THEN 0
  ELSE LET m == newestMtime(Tail(entries))
       IN IF Head(entries).mtimeMs > m THEN Head(entries).mtimeMs ELSE m

(* the archive directory once the stream of the archive named file has     *)
(* been written and closed                                                  *)
withArchive(archive, file) ==
  [archive EXCEPT !.entries =
     Append(removeEntry(@, file),
            [file |-> file, mtimeMs |-> newestMtime(archive.entries) + 1])]

----------------------------------------------------------------------------
(* Input domains *)

(* Segments input versions are built from: numeric and non-numeric *)
SegSet == {<<"0", "7">>, <<"2", "5">>, <<"a">>}

(* Input versions: every string of up to MaxSegs segments, the examples of *)
(* the tests, empty and negative segments, the empty string, and a missing  *)
(* value                                                                    *)
Inputs ==
  {join(segs, ".") : segs \in UNION {[1..n -> SegSet] : n \in 1..MaxSegs}}
    \cup {<<"2", "5", ".", "0", "7", ".", "0", "1">>,
          <<"2", "5", ".", "0", "7", ".", "9", "9">>,
          <<"2", "5", ".", "1", "2", ".", "3", "0">>,
          <<"0", "5", ".", "0", "7", ".", "0", "1">>,
          <<"2", "5", ".", ".", "0", "7">>,
          <<"2", "5", ".", "0", "7", ".">>,
          <<"2", "5", ".", "0", "7", ".", "-", "1">>,
          <<"-", "1", ".", "0", "7", ".", "0", "1">>,
          <<>>,
          Undefined}

(* Clock readings: a year below 10, a month change, a year change, a       *)
(* two-digit month, another century                                         *)
Clocks ==
  {[year |-> 2005, month |-> 7], [year |-> 2025, month |-> 7],
   [year |-> 2025, month |-> 8], [year |-> 2025, month |-> 12],
   [year |-> 2026, month |-> 1], [year |-> 2125, month |-> 7]}

(* Valid versions a sequence of runs starts from *)
ValidStarts ==
  {<<"2", "5", ".", "0", "7", ".", "0", "1">>,
   <<"2", "5", ".", "0", "7", ".", "9", "9">>,
   <<"2", "5", ".", "1", "2", ".", "3", "0">>,
   <<"0", "5", ".", "0", "7", ".", "9", "8">>}

NoCall ==
  [called |-> FALSE, input |-> <<>>, now |-> [year |-> 0, month |-> 0],
   result |-> <<>>, warned |-> FALSE]

NoFiles == [pkg |-> <<>>, root |-> <<>>, build |-> <<>>, schema |-> <<>>]

(* Texts handed to slugify: letters, spaces, hyphens and underscores *)
Alphabet == {"a", " ", "-", "_"}

Texts == UNION {[1..n -> Alphabet] : n \in 0..MaxLen}

NotYet == [done |-> FALSE, value |-> <<>>]

NoTree == [dirs |-> {}, files |-> {}]

(* Names of the entries of the trees: a junk file, a file to keep, and a   *)
(* subdirectory                                                             *)
FileNames == {".DS_Store", "keep.txt"}

DirName == "nested"

(* the directories of the deepest tree: dist, dist/nested, ... *)
RECURSIVE dirAt(_)
dirAt(k) == IF k = 0 THEN Root ELSE Append(dirAt(k - 1), DirName)

(* Trees: the root is missing, or the directories form a chain of at most  *)
(* MaxDepth nested subdirectories and every directory holds any subset of   *)
(* the file names                                                           *)
Trees ==
  {[dirs |-> {}, files |-> {}]} \cup
  {[dirs |-> {dirAt(k) : k \in 0..d}, files |-> fl] :
     d \in 0..MaxDepth,
     fl \in SUBSET {Append(dirAt(k), n) : k \in 0..MaxDepth, n \in FileNames}}

WellFormedTree(t) ==
  \A p \in t.files : SubSeq(p, 1, Len(p) - 1) \in t.dirs

(* the orders in which a listing can return the three names *)
Orders ==
  {o \in [1..3 -> FileNames \cup {DirName}] :
     \A i, j \in 1..3 : i # j => o[i] # o[j]}

(* One operation on one entry fails, or none does: a directory that cannot *)
(* be read or searched, a file that cannot be removed (EACCES), or an entry *)
(* that is a dangling symbolic link, which readdir lists and stat reports   *)
(* as ENOENT.  The run owns its directories, so no entry vanishes between   *)
(* the listing and its use.                                                 *)
Faults(t) ==
  {NoFault} \cup
  {[op |-> "readdir", path |-> p, code |-> "EACCES"] : p \in t.dirs} \cup
  {[op |-> "stat", path |-> p, code |-> c] :
     p \in (t.dirs \cup t.files) \ {Root}, c \in {"ENOENT", "EACCES"}} \cup
  {[op |-> "unlink", path |-> p, code |-> "EACCES"] :
     p \in {q \in t.files : baseName(q) \in junkFiles}}

NoJunkCall ==
  [called |-> FALSE, second |-> FALSE, before |-> NoTree,
   deleted |-> {}, errors |-> {},
   raised |-> {}, visited |-> {}, rejected |-> FALSE]

VersionIdle ==
  /\ currentVersion = <<>>
  /\ clock = [year |-> 2025, month |-> 7]
  /\ lastCall = NoCall
  /\ prevCall = NoCall

RunIdle == files = NoFiles /\ archives = {} /\ runs = 0

SlugIdle == text = <<>> /\ slugOnce = NotYet /\ slugTwice = NotYet

JunkIdle ==
  /\ fs = NoTree
  /\ fs0 = NoTree
  /\ order = <<>>
  /\ fault = NoFault
  /\ lastJunk = NoJunkCall

(* Names of the entries under pagecataloging: two .json files, a file with *)
(* another extension, and a subdirectory                                     *)
aJson == <<"a", ".", "j", "s", "o", "n">>

bJson == <<"b", ".", "j", "s", "o", "n">>

nTxt == <<"n", ".", "t", "x", "t">>

SubDir == <<"s", "u", "b">>

JsonSub == Append(JsonRoot, SubDir)

OldVersion == <<"2", "5", ".", "0", "7", ".", "0", "1">>

NewVersion == <<"2", "5", ".", "0", "7", ".", "0", "2">>

(* Documents: a version key at the top level, in a nested object, in an    *)
(* object inside an array, in a top-level array, with an object as its      *)
(* value, below a null member and two arrays, and a document that is a       *)
(* bare string                                                               *)
Docs ==
  <<Obj(<<KV("version", Str(OldVersion))>>),
    Obj(<<KV("name", Str(<<"n">>)),
          KV("meta", Obj(<<KV("version", Str(OldVersion))>>))>>),
    Obj(<<KV("pages", Arr(<<Obj(<<KV("version", Str(OldVersion))>>),
                            Str(<<"x">>)>>))>>),
    Arr(<<Obj(<<KV("version", Str(OldVersion))>>)>>),
    Obj(<<KV("version", Obj(<<KV("version", Str(OldVersion))>>))>>),
    Obj(<<KV("meta", Null),
          KV("deep", Obj(<<KV("a", Arr(<<Arr(<<Obj(<<KV("version",
                                  Str(OldVersion))>>)>>)>>))>>))>>),
    Str(<<"v", "e", "r", "s", "i", "o", "n">>)>>

(* the files a tree can hold, in a fixed numbering *)
JsonSlots ==
  <<Append(JsonRoot, aJson), Append(JsonRoot, bJson), Append(JsonSub, aJson),
    Append(JsonSub, bJson), Append(JsonRoot, nTxt)>>

slotOf(p) == CHOOSE i \in 1..Len(JsonSlots) : JsonSlots[i] = p

isJsonFile(p) == extname(baseName(p)) = dotJson

(* Trees with contents: the root is missing, or it holds any of the three  *)
(* files and possibly the subdirectory with any of the two .json files; the *)
(* documents are dealt to the files starting from any of them; at most one  *)
(* .json file holds text that is not JSON                                    *)
JsonTrees ==
  {[dirs |-> {}, files |-> {}, content |-> <<>>]} \cup
  {[dirs |-> ds, files |-> fl,
    content |-> [p \in fl |->
                   [parses |-> p # bad,
                    doc |-> Docs[((slotOf(p) + rot) % Len(Docs)) + 1]]]] :
     ds \in {{JsonRoot}, {JsonRoot, JsonSub}},
     fl \in SUBSET {JsonSlots[i] : i \in 1..Len(JsonSlots)},
     rot \in 1..Len(Docs),
     bad \in {JsonSlots[i] : i \in 1..Len(JsonSlots)} \cup {<<>>}}

WellFormedJsonTree(t) ==
  /\ \A p \in t.files : SubSeq(p, 1, Len(p) - 1) \in t.dirs
  /\ \A p \in t.files : ~ t.content[p].parses => isJsonFile(p)

JsonOrders ==
  {o \in [1..4 -> {aJson, bJson, nTxt, SubDir}] :
     \A i, j \in 1..4 : i # j => o[i] # o[j]}

(* One operation on one entry fails, or none does; a tree with a file that *)
(* does not parse has no other failure                                      *)
JsonFaults(t) ==
  {NoFault} \cup
  IF \E p \in t.files : ~ t.content[p].parses THEN {}
  ELSE {[op |-> "readdir", path |-> p, code |-> "EACCES"] : p \in t.dirs} \cup
       {[op |-> "stat", path |-> p, code |-> "EACCES"] :
          p \in (t.dirs \cup t.files) \ {JsonRoot}} \cup
       {[op |-> o, path |-> p, code |-> "EACCES"] :
          o \in {"readFile", "writeFile"}, p \in {q \in t.files : isJsonFile(q)}}

NoJsonCall ==
  [called |-> FALSE, before |-> [dirs |-> {}, files |-> {}, content |-> <<>>],
   written |-> {}, warned |-> {}, errors |-> {}, rejected |-> FALSE]

JsonIdle ==
  /\ jsonFs = [dirs |-> {}, files |-> {}, content |-> <<>>]
  /\ jsonEnv = [order |-> <<>>, fault |-> NoFault, newVersion |-> <<>>]
  /\ jsonCall = NoJsonCall

(* Names of archive entries, in the order readdir lists them *)
EntryNames ==
  <<"a.zip", "b.zip", "c.zip", "d.zip", "e.zip", "f.zip", "g.zip", "h.zip",
    "i.zip", "j.zip", "k.zip", "l.zip">>

Mtimes == {1, 2, 3}

(* Archive directories: missing; up to MaxEntries entries with any         *)
(* modification times, equal ones included; and one entry more than the     *)
(* configured keep count, oldest first, newest first, interleaved, or with *)
(* the two oldest of the same time                                          *)
ArchiveDirs ==
  {NoArchiveDir} \cup
  {[exists |-> TRUE,
    entries |-> [i \in 1..n |-> [file |-> EntryNames[i], mtimeMs |-> m[i]]]] :
     n \in 0..MaxEntries, m \in [1..MaxEntries -> Mtimes]} \cup
  {[exists |-> TRUE,
    entries |-> [i \in 1..(archivesToKeep + 1) |->
                   [file |-> EntryNames[i], mtimeMs |-> m[i]]]] :
     m \in {[i \in 1..(archivesToKeep + 1) |-> i],
            [i \in 1..(archivesToKeep + 1) |-> archivesToKeep + 2 - i],
            [i \in 1..(archivesToKeep + 1) |-> (i * 7) % (archivesToKeep + 1)],
            [i \in 1..(archivesToKeep + 1) |-> IF i <= 2 THEN 1 ELSE i]}}

(* config.archivesToKeep: the default, and smaller counts a caller sets on *)
(* the exported config object                                               *)
KeepCounts == {1, 2, archivesToKeep}

(* One operation fails, or none does: the directory cannot be read, an     *)
(* entry cannot be examined (EACCES, or ENOENT for a dangling symbolic      *)
(* link), or an entry cannot be removed                                     *)
PruneFaults(d) ==
  {NoFault} \cup
  IF ~ d.exists THEN {}
  ELSE {[op |-> "readdir", path |-> archivePath, code |-> "EACCES"]} \cup
       {[op |-> "stat", path |-> <<d.entries[i].file>>, code |-> c] :
          i \in 1..Len(d.entries), c \in {"EACCES", "ENOENT"}} \cup
       {[op |-> "rm", path |-> <<d.entries[i].file>>, code |-> "EACCES"] :
          i \in 1..Len(d.entries)}

NoPruneCall ==
  [called |-> FALSE, before |-> NoArchiveDir, deleted |-> {}, errors |-> {},
   rejected |-> FALSE]

PruneIdle ==
  /\ archiveDir = NoArchiveDir
  /\ pruneEnv = [keep |-> archivesToKeep, fault |-> NoFault]
  /\ pruneCall = NoPruneCall

(* What a platform source folder holds: a file, and a file one level down *)
sourceFiles(folder) ==
  {Append(sourcePath(folder), "f.txt"),
   sourcePath(folder) \o <<"pages", "h.txt">>}

(* What a destination folder holds before the merge: a file at the path of *)
(* a source file, and one without counterpart in the source                 *)
oldFiles(folder) ==
  {Append(destPath(folder), "f.txt"), Append(destPath(folder), "g.txt")}

(* the tree in which the folders of withSource have a source and the       *)
(* folders of withDest a destination left by an earlier build               *)
mergeTree(withSource, withDest) ==
  LET fl == UNION ({sourceFiles(f) : f \in withSource}
                     \cup {oldFiles(f) : f \in withDest})
  IN [dirs |-> UNION {ancestors(SubSeq(p, 1, Len(p) - 1)) : p \in fl}
                 \cup {buildDir, schemaDir} \cup ancestors(powerSchoolSourceDir),
      files |-> fl,
      content |-> [p \in fl |->
                     IF isPrefix(powerSchoolSourceDir, p) THEN "new" ELSE "old"]]

FolderSet == {psFolders[i] : i \in 1..Len(psFolders)}

(* Trees: any of the folders has a source; a schema-bound folder, a        *)
(* build-bound folder and WEB_ROOT may have a destination from before       *)
MergeTrees ==
  {mergeTree(s, d) :
     s \in SUBSET FolderSet,
     d \in SUBSET {"user_schema_root", "queries_root", "WEB_ROOT"}}

(* One operation of one folder fails, or none does *)
MergeFaults ==
  {NoFault} \cup
  {[op |-> "access", path |-> sourcePath(f), code |-> "EACCES"] : f \in FolderSet}
  \cup {[op |-> "rm", path |-> destPath(f), code |-> "EACCES"] : f \in FolderSet}
  \cup {[op |-> "cp", path |-> sourcePath(f), code |-> c] :
          f \in FolderSet, c \in {"EACCES", "ENOENT"}}

NoMergeCall ==
  [called |-> FALSE, before |-> EmptyTree, merged |-> {}, errors |-> {},
   rejected |-> FALSE]

MergeIdle ==
  /\ mergeFs = EmptyTree
  /\ mergeEnv = [fault |-> NoFault]
  /\ mergeCall = NoMergeCall

(* Manifest names: one with a space-hyphen-space run, and one longer than  *)
(* the schema manifest keeps                                                *)
ShortName == <<"M", "y", " ", "-", " ", "A", "p", "p">>

LongName == [i \in 1..(nameLimit + 1) |-> IF i = 3 THEN " " ELSE "a"]

(* a name of exactly nameLimit characters *)
LimitName == [i \in 1..nameLimit |-> IF i = 3 THEN " " ELSE "b"]

ManifestNames == {ShortName, LimitName, LongName}

(* Descriptor versions a run starts from: valid ones, and one that does    *)
(* not parse                                                                *)
StartVersions ==
  {<<"2", "5", ".", "0", "7", ".", "0", "1">>,
   <<"2", "5", ".", "0", "7", ".", "9", "9">>,
   <<"a">>}

RunClocks == {[year |-> 2025, month |-> 7], [year |-> 2025, month |-> 8]}

manifestOf(version, name) ==
  [present |-> TRUE, version |-> version, name |-> name, access |-> TRUE]

(* The project on disk: package.json and the root plugin.xml carry the     *)
(* version; the build and schema manifests are absent (first build) or left *)
(* by the previous build                                                    *)
Disks ==
  {[pkg |-> v, root |-> manifestOf(v, n), build |-> b.build, schema |-> b.schema] :
     v \in StartVersions, n \in ManifestNames,
     b \in {[build |-> NoManifest, schema |-> NoManifest]}} \cup
  {[pkg |-> v, root |-> manifestOf(v, n), build |-> manifestOf(v, n),
    schema |-> dataVariant(manifestOf(v, n))] :
     v \in StartVersions, n \in ManifestNames}

(* The project tree: platform sources for WEB_ROOT (with a junk file),     *)
(* user_schema_root and an empty pagecataloging; the build output with the  *)
(* template index.html, a junk file and a file to keep; and, when built,    *)
(* the Svelte output                                                        *)
projectTree(withSvelteBuild) ==
  LET fl == {sourcePath("WEB_ROOT") \o <<"f.txt">>,
             sourcePath("WEB_ROOT") \o <<".DS_Store">>,
             sourcePath("user_schema_root") \o <<"f.txt">>,
             indexPath,
             buildDir \o <<"keep.txt">>,
             buildDir \o <<".DS_Store">>}
             \cup (IF withSvelteBuild THEN {svelteSourceDir \o <<"f.txt">>} ELSE {})
  IN [dirs |-> UNION {ancestors(SubSeq(p, 1, Len(p) - 1)) : p \in fl}
                 \cup {pageCatalogingDir},
      files |-> fl,
      content |-> [p \in fl |-> IF isPrefix(buildDir, p) THEN "old" ELSE "new"]]

(* the order in which listings return names during a run *)
RunOrder ==
  <<".DS_Store", "MessageKeys", "WEB_ROOT", "f.txt", "index.html", "keep.txt",
    "pagecataloging", "permissions_root", "plugin.xml", "queries_root",
    "user_schema_root">>

oldArchive(i) ==
  [file |-> <<"o", "l", "d", "-">> \o String(i) \o dotZip, mtimeMs |-> i]

(* The archive directory before the run: missing, empty, or holding the    *)
(* archives of archivesToKeep - 1 earlier builds                            *)
RunArchives ==
  {NoArchiveDir, [exists |-> TRUE, entries |-> <<>>],
   [exists |-> TRUE,
    entries |-> [i \in 1..(archivesToKeep - 1) |-> oldArchive(i)]]}

(* One operation of the run fails, or none does *)
RunFaults ==
  {NoFault} \cup
  {[op |-> "readFile", path |-> p, code |-> c] :
     p \in {packageJson, rootXml}, c \in {"ENOENT", "EACCES"}} \cup
  {[op |-> "parse", path |-> p, code |-> "SyntaxError"] :
     p \in {packageJson, rootXml}} \cup
  {[op |-> "mkdir", path |-> p, code |-> "EACCES"] :
     p \in {buildDir, archivePath, schemaDir}} \cup
  {[op |-> "writeFile", path |-> p, code |-> "EACCES"] :
     p \in {packageJson, rootXml, buildXml, schemaXml}} \cup
  {[op |-> "readdir", path |-> p, code |-> "EACCES"] :
     p \in {pageCatalogingDir, buildDir, archivePath}} \cup
  {[op |-> "cp", path |-> p, code |-> "EACCES"] :
     p \in {sourcePath("WEB_ROOT"), svelteSourceDir}} \cup
  {[op |-> "access", path |-> p, code |-> "EACCES"] :
     p \in {svelteSourceDir, buildDir, schemaDir}} \cup
  {[op |-> "unlink", path |-> indexPath, code |-> "EACCES"]} \cup
  {[op |-> "zip", path |-> p, code |-> c] :
     p \in {buildDir, schemaDir}, c \in {"EACCES", "ENOSPC", "ENOENT"}}

NoMem ==
  [currentVersion |-> <<>>, newVersion |-> <<>>, psXML |-> NoManifest,
   copied |-> NotCopied, waiting |-> <<>>]

Pending == [state |-> "pending", error |-> NoFault]

PipelineIdle ==
  /\ stage = "Idle"
  /\ calls = <<>>
  /\ logs = <<>>
  /\ disk = [pkg |-> <<>>, root |-> NoManifest, build |-> NoManifest,
             schema |-> NoManifest]
  /\ mem = NoMem
  /\ projectFs = EmptyTree
  /\ streams = {}
  /\ outcome = Pending
  /\ plan = [projectType |-> "vue"]

RestIdle == JsonIdle /\ PruneIdle /\ MergeIdle /\ PipelineIdle

----------------------------------------------------------------------------
(* SpecVersion: direct calls of the exported getNewVersion *)

InitVersion ==
  /\ currentVersion \in Inputs
  /\ clock \in Clocks
  /\ lastCall = NoCall
  /\ prevCall = NoCall
  /\ RunIdle
  /\ SlugIdle
  /\ JunkIdle
  /\ RestIdle

(* A caller invokes getNewVersion(currentVersion); the function reads the  *)
(* clock itself (`new Date()`), which reads now at that moment.             *)
CallGetNewVersion ==
  \E now \in Clocks :
    LET out == getNewVersion(currentVersion, now)
    IN /\ clock' = now
       /\ prevCall' = lastCall
       /\ lastCall' = [called |-> TRUE, input |-> currentVersion, now |-> now,
                       result |-> out.result, warned |-> out.warned]
       /\ UNCHANGED <<currentVersion, runVars, slugVars, junkVars, restVars>>

NextVersion == CallGetNewVersion

vars == <<currentVersion, clock, lastCall, prevCall, files, archives, runs,
          text, slugOnce, slugTwice, fs, fs0, order, fault, lastJunk,
          jsonFs, jsonEnv, jsonCall, archiveDir, pruneEnv, pruneCall,
          mergeFs, mergeEnv, mergeCall,
          stage, calls, logs, disk, mem, projectFs, streams, outcome, plan>>

SpecVersion == InitVersion /\ [][NextVersion]_vars

----------------------------------------------------------------------------
(* Spec: successive runs of main *)

Init ==
  /\ currentVersion = <<>>
  /\ clock \in Clocks
  /\ lastCall = NoCall
  /\ prevCall = NoCall
  /\ \E v \in ValidStarts : files = [pkg |-> v, root |-> v, build |-> v, schema |-> v]
  /\ archives = {}
  /\ runs = 0
  /\ SlugIdle
  /\ JunkIdle
  /\ RestIdle

Main ==
  /\ runs < MaxRuns
  /\ \E now \in Clocks, failAt \in FailPoints :
       LET out == main(files, archives, now, failAt)
       IN /\ clock' = now
          /\ files' = out.files
          /\ archives' = out.archives
          /\ runs' = runs + 1
          /\ UNCHANGED <<currentVersion, lastCall, prevCall, slugVars, junkVars,
                       restVars>>

Next == Main

Spec == Init /\ [][Next]_vars

----------------------------------------------------------------------------
(* SpecSlug: calls of the exported slugify *)

InitSlug ==
  /\ text \in Texts
  /\ slugOnce = NotYet
  /\ slugTwice = NotYet
  /\ VersionIdle
  /\ RunIdle
  /\ JunkIdle
  /\ RestIdle

(* slugify(text) *)
SlugifyText ==
  /\ ~ slugOnce.done
  /\ slugOnce' = [done |-> TRUE, value |-> slugify(text)]
  /\ UNCHANGED <<text, slugTwice, versionVars, runVars, junkVars, restVars>>

(* slugify applied to the slug *)
SlugifySlug ==
  /\ slugOnce.done
  /\ ~ slugTwice.done
  /\ slugTwice' = [done |-> TRUE, value |-> slugify(slugOnce.value)]
  /\ UNCHANGED <<text, slugOnce, versionVars, runVars, junkVars, restVars>>

NextSlug == SlugifyText \/ SlugifySlug

SpecSlug == InitSlug /\ [][NextSlug]_vars

----------------------------------------------------------------------------
(* SpecJunk: calls of the exported removeJunk *)

InitJunk ==
  /\ fs \in {t \in Trees : WellFormedTree(t)}
  /\ fs0 = fs
  /\ order \in Orders
  /\ fault \in Faults(fs)
  /\ lastJunk = NoJunkCall
  /\ VersionIdle
  /\ RunIdle
  /\ SlugIdle
  /\ RestIdle

(* await removeJunk(Root) *)
RemoveJunk ==
  LET out == removeJunk(Root, fs)
  IN /\ fs' = out.tree
     /\ lastJunk' = [called |-> TRUE, second |-> lastJunk.called,
                     before |-> fs,
                     deleted |-> out.deleted, errors |-> out.errors,
                     raised |-> out.raised, visited |-> out.visited,
                     rejected |-> FALSE]
     /\ UNCHANGED <<fs0, order, fault, versionVars, runVars, slugVars, restVars>>

NextJunk == RemoveJunk

SpecJunk == InitJunk /\ [][NextJunk]_vars

----------------------------------------------------------------------------
(* SpecJson: calls of updateJsonVersionsInDir on the page-cataloging tree *)

InitJson ==
  /\ jsonFs \in {t \in JsonTrees : WellFormedJsonTree(t)}
  /\ \E o \in JsonOrders, f \in JsonFaults(jsonFs) :
       jsonEnv = [order |-> o, fault |-> f, newVersion |-> NewVersion]
  /\ jsonCall = NoJsonCall
  /\ VersionIdle
  /\ RunIdle
  /\ SlugIdle
  /\ JunkIdle
  /\ PruneIdle
  /\ MergeIdle
  /\ PipelineIdle

(* await updateJsonVersionsInDir(JsonRoot, newVersion) *)
UpdateJsonVersionsInDir ==
  LET out == updateJsonVersionsInDir(JsonRoot, jsonEnv, jsonFs)
  IN /\ jsonFs' = out.tree
     /\ jsonCall' = [called |-> TRUE, before |-> jsonFs,
                     written |-> out.written, warned |-> out.warned,
                     errors |-> out.errors, rejected |-> FALSE]
     /\ UNCHANGED <<jsonEnv, versionVars, runVars, slugVars, junkVars,
                    pruneVars, mergeVars, pipeVars>>

NextJson == UpdateJsonVersionsInDir

SpecJson == InitJson /\ [][NextJson]_vars

----------------------------------------------------------------------------
(* SpecPrune: calls of pruneArchives on the archive directory *)

InitPrune ==
  /\ archiveDir \in ArchiveDirs
  /\ \E k \in KeepCounts, f \in PruneFaults(archiveDir) :
       pruneEnv = [keep |-> k, fault |-> f]
  /\ pruneCall = NoPruneCall
  /\ VersionIdle
  /\ RunIdle
  /\ SlugIdle
  /\ JunkIdle
  /\ JsonIdle
  /\ MergeIdle
  /\ PipelineIdle

(* await pruneArchives() *)
PruneArchives ==
  LET out == pruneArchives(archiveDir, pruneEnv.keep, pruneEnv.fault)
  IN /\ archiveDir' = out.dir
     /\ pruneCall' = [called |-> TRUE, before |-> archiveDir,
                      deleted |-> out.deleted, errors |-> out.errors,
                      rejected |-> FALSE]
     /\ UNCHANGED <<pruneEnv, versionVars, runVars, slugVars, junkVars,
                    jsonVars, mergeVars, pipeVars>>

NextPrune == PruneArchives

SpecPrune == InitPrune /\ [][NextPrune]_vars

----------------------------------------------------------------------------
(* SpecMerge: calls of mergePSfolders *)

InitMerge ==
  /\ mergeFs \in MergeTrees
  /\ \E f \in MergeFaults : mergeEnv = [fault |-> f]
  /\ mergeCall = NoMergeCall
  /\ VersionIdle
  /\ RunIdle
  /\ SlugIdle
  /\ JunkIdle
  /\ JsonIdle
  /\ PruneIdle
  /\ PipelineIdle

(* await mergePSfolders() *)
MergePSfolders ==
  LET out == mergePSfolders(mergeFs, mergeEnv.fault)
  IN /\ mergeFs' = out.tree
     /\ mergeCall' = [called |-> TRUE, before |-> mergeFs,
                      merged |-> out.merged, errors |-> out.errors,
                      rejected |-> FALSE]
     /\ UNCHANGED <<mergeEnv, versionVars, runVars, slugVars, junkVars,
                    jsonVars, pruneVars, pipeVars>>

NextMerge == MergePSfolders

SpecMerge == InitMerge /\ [][NextMerge]_vars

----------------------------------------------------------------------------
(* SpecPipeline: one run of main, stage by stage *)

InitPipeline ==
  /\ stage = "ReadDescriptor"
  /\ calls = <<>>
  /\ logs = <<>>
  /\ disk \in Disks
  /\ mem = NoMem
  /\ projectFs \in {projectTree(TRUE), projectTree(FALSE)}
  /\ streams = {}
  /\ outcome = Pending
  /\ \E t \in {"vue", "svelte"} : plan = [projectType |-> t]
  /\ clock \in RunClocks
  /\ currentVersion = <<>> /\ lastCall = NoCall /\ prevCall = NoCall
  /\ fs = NoTree /\ fs0 = NoTree /\ lastJunk = NoJunkCall
  /\ order = RunOrder
  /\ fault \in RunFaults
  /\ archiveDir \in RunArchives
  /\ pruneEnv = [keep |-> archivesToKeep, fault |-> NoFault]
  /\ pruneCall = NoPruneCall
  /\ RunIdle
  /\ SlugIdle
  /\ JsonIdle
  /\ MergeIdle

(* the log entries and calls of a stage, marked with the stage *)
stamp(entries) ==
  [i \in 1..Len(entries) |->
     [stage |-> stage, level |-> entries[i].level, msg |-> entries[i].msg,
      error |-> NoFault]]

stampCalls(cs) ==
  [i \in 1..Len(cs) |-> [stage |-> stage, op |-> cs[i].op, path |-> cs[i].path]]

(* Variant: the failure is logged and main goes on with the next stage *)
Abort_swallow(error, entries, cs) ==
  /\ stage' = nextStage(stage)
  /\ logs' = logs \o stamp(entries)
               \o <<[stage |-> stage, level |-> "error",
                     msg |-> "--- BUILD FAILED ---", error |-> NoFault],
                    [stage |-> stage, level |-> "error", msg |-> "error",
                     error |-> error]>>
  /\ calls' = calls \o stampCalls(cs)
  /\ outcome' = outcome

(* lines 414-418, the catch of main: the failure is logged and rethrown *)
Abort(error, entries, cs) ==
  /\ stage' = "Failed"
  /\ logs' = logs \o stamp(entries)
               \o <<[stage |-> stage, level |-> "error",
                     msg |-> "--- BUILD FAILED ---", error |-> NoFault],
                    [stage |-> stage, level |-> "error", msg |-> "error",
                     error |-> error]>>
  /\ calls' = calls \o stampCalls(cs)
  /\ outcome' = [state |-> "rejected", error |-> error]

(* the stage returned: main goes on with the next one *)
Proceed(entries, cs) ==
  /\ stage' = nextStage(stage)
  /\ logs' = logs \o stamp(entries)
  /\ calls' = calls \o stampCalls(cs)
  /\ outcome' = outcome

outsidePipeline ==
  <<currentVersion, lastCall, prevCall, clock, runVars, slugVars, junkVars,
    jsonVars, pruneEnv, pruneCall, mergeVars, plan>>

(* lines 391-392: package.json is read and parsed *)
ReadDescriptor ==
  /\ stage = "ReadDescriptor"
  /\ IF fails("readFile", packageJson, fault) \/ fails("parse", packageJson, fault)
     THEN /\ Abort(fault, <<>>, <<Call("readFile", packageJson)>>)
          /\ mem' = mem
     ELSE /\ Proceed(<<>>, <<Call("readFile", packageJson)>>)
          /\ mem' = [mem EXCEPT !.currentVersion = disk.pkg]
  /\ UNCHANGED <<disk, projectFs, streams, archiveDir, outsidePipeline>>

(* line 393: getNewVersion(currentVersion) *)
ComputeVersion ==
  /\ stage = "ComputeVersion"
  /\ LET out == getNewVersion(mem.currentVersion, clock)
     IN /\ Proceed(IF out.warned
                   THEN <<Log("warn", "Could not parse version")>> ELSE <<>>,
                   <<>>)
        /\ mem' = [mem EXCEPT !.newVersion = out.result]
  /\ UNCHANGED <<disk, projectFs, streams, archiveDir, outsidePipeline>>

(* line 398: await ensureDirectoriesExist() *)
EnsureDirectories ==
  /\ stage = "EnsureDirectories"
  /\ LET out == ensureDirectoriesExist(projectFs, archiveDir, fault)
     IN /\ IF out.thrown # NoFault
           THEN Abort(out.thrown, <<>>, out.calls)
           ELSE Proceed(<<>>, out.calls)
        /\ projectFs' = out.tree
        /\ archiveDir' = out.archive
  /\ UNCHANGED <<disk, mem, streams, outsidePipeline>>

(* line 399: const psXML = await updatePackageVersions(newVersion) *)
UpdateManifestsAndVersion ==
  /\ stage = "UpdateManifestsAndVersion"
  /\ LET out == updatePackageVersions(mem.newVersion, disk, projectFs, order, fault)
     IN /\ IF out.thrown # NoFault
           THEN /\ Abort(out.thrown, out.logs, out.calls)
                /\ mem' = mem
           ELSE /\ Proceed(out.logs, out.calls)
                /\ mem' = [mem EXCEPT !.psXML = out.psXML]
        /\ disk' = out.disk
        /\ projectFs' = out.tree
  /\ UNCHANGED <<streams, archiveDir, outsidePipeline>>

(* line 400: await prepareBuildDirectory() *)
PrepareBuildTree ==
  /\ stage = "PrepareBuildTree"
  /\ LET out == prepareBuildDirectory(projectFs)
     IN /\ Proceed(out.logs, out.calls)
        /\ projectFs' = out.tree
  /\ UNCHANGED <<disk, mem, streams, archiveDir, outsidePipeline>>

(* line 401: await copySvelteBuildContents(psXML) *)
FrameworkCopy ==
  /\ stage = "FrameworkCopy"
  /\ LET out == copySvelteBuildContents(plan.projectType, mem.psXML, projectFs, fault)
     IN /\ Proceed(out.logs, out.calls)
        /\ mem' = [mem EXCEPT !.copied = out.copied]
  /\ UNCHANGED <<disk, projectFs, streams, archiveDir, outsidePipeline>>

(* line 183: the error createPluginZip throws wraps the failure *)
zipError(sourceFolder) ==
  [op |-> "createPluginZip", path |-> sourceFolder, code |-> "none"]

(* createPluginZip(sourceFolder, file), lines 151-177: the source is       *)
(* checked and the archive starts streaming into plugin_archive/file        *)
StartArchive(sourceFolder, file) ==
  LET code == failure("access", sourceFolder, projectFs, fault)
      opened == <<Call("access", sourceFolder), Call("createWriteStream", archivePath)>>
  IN IF code = "ENOENT"
     THEN /\ Proceed(<<Log("info", "Skipping archive creation")>>,
                     <<Call("access", sourceFolder)>>)
          /\ UNCHANGED <<streams, mem>>
     ELSE IF code # "none"
     THEN /\ Abort(zipError(sourceFolder), <<>>, <<Call("access", sourceFolder)>>)
          /\ UNCHANGED <<streams, mem>>
     ELSE /\ streams' = streams \cup {[file |-> file, source |-> sourceFolder]}
          /\ IF awaitsPipeline
             THEN /\ mem' = [mem EXCEPT !.waiting = file]
                  /\ calls' = calls \o stampCalls(opened)
                  /\ UNCHANGED <<stage, logs, outcome>>
             ELSE /\ Proceed(<<>>, opened)
                  /\ mem' = mem

(* line 408: await createPluginZip(config.buildDir, zipFileName) *)
BuildPrimaryArchive ==
  /\ stage = "BuildPrimaryArchive"
  /\ mem.waiting = <<>>
  /\ StartArchive(buildDir, zipFileName(slugify(mem.psXML.name), mem.newVersion))
  /\ UNCHANGED <<disk, projectFs, archiveDir, outsidePipeline>>

(* line 409: await createPluginZip(config.schemaDir, schemaZipFileName) *)
BuildSchemaArchive ==
  /\ stage = "BuildSchemaArchive"
  /\ mem.waiting = <<>>
  /\ StartArchive(schemaDir,
       schemaZipFileName(zipFileName(slugify(mem.psXML.name), mem.newVersion)))
  /\ UNCHANGED <<disk, projectFs, archiveDir, outsidePipeline>>

(* The pipeline of an archive ends: the output is flushed and closed, or   *)
(* the stream failed.  A createPluginZip that awaits it (line 177) goes on: *)
(* lines 178-185.                                                           *)
FinishArchive ==
  \E s \in streams :
    LET failed == fails("zip", s.source, fault)
    IN /\ streams' = streams \ {s}
       /\ archiveDir' = IF failed THEN archiveDir
                        ELSE withArchive(archiveDir, s.file)
       /\ IF mem.waiting = s.file
          THEN /\ mem' = [mem EXCEPT !.waiting = <<>>]
               /\ IF ~ failed
                  THEN Proceed(<<Log("info", "Archive created")>>, <<>>)
                  ELSE IF fault.code = "ENOENT"
                  THEN Proceed(<<Log("info", "Skipping archive creation")>>, <<>>)
                  ELSE Abort(zipError(s.source), <<>>, <<>>)
          ELSE UNCHANGED <<mem, stage, logs, calls, outcome>>
       /\ UNCHANGED <<disk, projectFs, outsidePipeline>>

(* lines 411-413: await pruneArchives(), and the run is complete *)
PruneStage ==
  /\ stage = "PruneArchives"
  /\ LET out == pruneArchives(archiveDir, archivesToKeep, fault)
     IN /\ archiveDir' = out.dir
        /\ stage' = "Done"
        /\ logs' = logs
             \o stamp([i \in 1..Cardinality(out.errors) |->
                         Log("error", "Error pruning archives")]
                      \o <<Log("info", "Build process completed successfully!")>>)
        /\ calls' = calls \o stampCalls(<<Call("pruneArchives", archivePath)>>)
        /\ outcome' = [state |-> "resolved", error |-> NoFault]
  /\ UNCHANGED <<disk, mem, projectFs, streams, outsidePipeline>>

NextPipeline ==
  \/ ReadDescriptor
  \/ ComputeVersion
  \/ EnsureDirectories
  \/ UpdateManifestsAndVersion
  \/ PrepareBuildTree
  \/ FrameworkCopy
  \/ BuildPrimaryArchive
  \/ BuildSchemaArchive
  \/ FinishArchive
  \/ PruneStage

SpecPipeline == InitPipeline /\ [][NextPipeline]_vars

----------------------------------------------------------------------------
(* Properties of getNewVersion, checked on the recorded calls (SpecVersion) *)

segments(v) == split(v, ".")

segVal(v, i) == Number(segments(v)[i]).val

(* v parses as three dot-separated numbers *)
ParsesAsThree(v) ==
  /\ v # Undefined
  /\ Len(segments(v)) = 3
  /\ \A i \in 1..3 : ~ Number(segments(v)[i]).nan

(* v is exactly three dot-separated non-negative integers *)
ThreeNonNegativeIntegers(v) ==
  /\ v # Undefined
  /\ Len(segments(v)) = 3
  /\ \A i \in 1..3 : segments(v)[i] # <<>> /\ AllDigits(segments(v)[i])

SameMonth(c) ==
  /\ c.called
  /\ ParsesAsThree(c.input)
  /\ segVal(c.input, 1) = c.now.year % 100
  /\ segVal(c.input, 2) = c.now.month

OtherMonth(c) ==
  /\ c.called
  /\ ParsesAsThree(c.input)
  /\ \/ segVal(c.input, 1) # c.now.year % 100
     \/ segVal(c.input, 2) # c.now.month

(* C1: when the current version parses as three numbers whose year and     *)
(* month are today's, the result keeps that year and month and its patch is *)
(* the current patch + 1.                                                   *)
C1_SameMonthIncrementsPatch ==
  SameMonth(lastCall) =>
    /\ ParsesAsThree(lastCall.result)
    /\ segVal(lastCall.result, 1) = segVal(lastCall.input, 1)
    /\ segVal(lastCall.result, 2) = segVal(lastCall.input, 2)
    /\ segVal(lastCall.result, 3) = segVal(lastCall.input, 3) + 1

(* 25.07.01 on 2025-07 gives 25.07.02 *)
C1_Witness ==
  /\ SameMonth(lastCall)
  /\ lastCall.input = <<"2", "5", ".", "0", "7", ".", "0", "1">>
  /\ lastCall.now = [year |-> 2025, month |-> 7]
  /\ lastCall.result = <<"2", "5", ".", "0", "7", ".", "0", "2">>

(* C2: when the parsable current version's (year, month) differs from      *)
(* today's, the result is today's year, today's month as two digits, and    *)
(* the patch 01, whatever the old patch was.                                *)
C2_MonthOrYearChangeResets ==
  OtherMonth(lastCall) =>
    /\ Len(segments(lastCall.result)) = 3
    /\ AllDigits(segments(lastCall.result)[1])
    /\ segVal(lastCall.result, 1) = lastCall.now.year % 100
    /\ Len(segments(lastCall.result)[2]) = 2
    /\ AllDigits(segments(lastCall.result)[2])
    /\ segVal(lastCall.result, 2) = lastCall.now.month
    /\ segments(lastCall.result)[3] = <<"0", "1">>

(* 25.12.30 on 2026-01 gives 26.01.01, and 25.07.99 on 2025-08 gave 25.08.01 *)
C2_Witness ==
  /\ OtherMonth(lastCall)
  /\ lastCall.input = <<"2", "5", ".", "1", "2", ".", "3", "0">>
  /\ lastCall.now = [year |-> 2026, month |-> 1]
  /\ lastCall.result = <<"2", "6", ".", "0", "1", ".", "0", "1">>

(* C3: for every current version that is not exactly three dot-separated   *)
(* non-negative integers the call warns and returns today's year, today's   *)
(* month and the patch 01.                                                  *)
C3_InvalidFallsBack ==
  (lastCall.called /\ ~ ThreeNonNegativeIntegers(lastCall.input)) =>
    /\ lastCall.warned
    /\ ParsesAsThree(lastCall.result)
    /\ segVal(lastCall.result, 1) = lastCall.now.year % 100
    /\ segVal(lastCall.result, 2) = lastCall.now.month
    /\ segVal(lastCall.result, 3) = 1

(* C4: each of the three segments of the returned string has at least two  *)
(* digits, whatever the input and the date.                                 *)
C4_SegmentsPadded ==
  lastCall.called =>
    /\ Len(segments(lastCall.result)) = 3
    /\ \A i \in 1..3 : Len(segments(lastCall.result)[i]) >= 2

SameYearMonth(a, b) == a.year % 100 = b.year % 100 /\ a.month = b.month

----------------------------------------------------------------------------
(* Properties of the versions written by runs of main (Spec) *)

(* YY.MM.PP: exactly two digits each, year 0-99, month 1-12, patch 1-99 *)
ValidVersionTag(v) ==
  /\ Len(segments(v)) = 3
  /\ \A i \in 1..3 : Len(segments(v)[i]) = 2 /\ AllDigits(segments(v)[i])
  /\ segVal(v, 2) \in 1..12
  /\ segVal(v, 3) \in 1..99

(* Three digit segments: year 0-99 in one or two digits, month 01-12,      *)
(* patch at least 1 in at least two digits                                  *)
WellFormedVersion(v) ==
  /\ Len(segments(v)) = 3
  /\ \A i \in 1..3 : segments(v)[i] # <<>> /\ AllDigits(segments(v)[i])
  /\ Len(segments(v)[1]) \in 1..2
  /\ Len(segments(v)[2]) = 2
  /\ segVal(v, 2) \in 1..12
  /\ Len(segments(v)[3]) >= 2
  /\ segVal(v, 3) >= 1

WrittenVersions ==
  {files.pkg, files.root, files.build, files.schema}
    \cup {a.version : a \in archives}

----------------------------------------------------------------------------
(* Properties of slugify (SpecSlug) *)

IsSeparator(c) == c = " " \/ c = "-"

HasSeparator(t) == \E i \in 1..Len(t) : IsSeparator(t[i])

(* every maximal run of spaces and/or hyphens becomes one underscore *)
RECURSIVE collapseRunsFrom(_, _)
collapseRunsFrom(t, i) ==
  IF i > Len(t) THEN <<>>
  ELSE IF IsSeparator(t[i])
    THEN (IF i > 1 /\ IsSeparator(t[i - 1]) THEN <<>> ELSE <<"_">>)
           \o collapseRunsFrom(t, i + 1)
    ELSE <<t[i]>> \o collapseRunsFrom(t, i + 1)

(* C7: slugify is idempotent, slugify(slugify(t)) = slugify(t), and it     *)
(* leaves a text without spaces or hyphens unchanged.                       *)
C7_SlugifyIdempotent ==
  /\ slugTwice.done => slugTwice.value = slugOnce.value
  /\ (slugOnce.done /\ ~ HasSeparator(text)) => slugOnce.value = text

(* "a - a" was slugified twice *)
C7_Witness ==
  /\ text = <<"a", " ", "-", " ", "a">>
  /\ slugOnce.done /\ slugOnce.value = <<"a", "_", "a">>
  /\ slugTwice.done /\ slugTwice.value = <<"a", "_", "a">>

(* C8: slugify replaces every maximal run of spaces and/or hyphens with    *)
(* exactly one underscore and leaves every other character unchanged.       *)
C8_RunsBecomeOneUnderscore ==
  slugOnce.done => slugOnce.value = collapseRunsFrom(text, 1)

----------------------------------------------------------------------------
(* Properties of removeJunk (SpecJunk) *)

parentOf(p) == SubSeq(p, 1, Len(p) - 1)

JunkFilesIn(t) == {p \in t.files : baseName(p) \in junkFiles}

(* C9: when no filesystem operation fails, after removeJunk no file with a *)
(* junk name is left at any depth, every other file and every directory is  *)
(* as before, and a second call in succession deletes nothing.              *)
C9_JunkRemovedOthersKept ==
  (lastJunk.called /\ fault = NoFault) =>
    /\ JunkFilesIn(fs) = {}
    /\ fs.dirs = fs0.dirs
    /\ fs.files = fs0.files \ JunkFilesIn(fs0)
    /\ lastJunk.second => lastJunk.deleted = {}

(* junk at three depths was removed, the files to keep are there, and a    *)
(* second call has been made                                                *)
C9_Witness ==
  /\ lastJunk.called /\ lastJunk.second /\ fault = NoFault
  /\ {Append(dirAt(k), ".DS_Store") : k \in 0..2} \subseteq fs0.files
  /\ {Append(dirAt(k), "keep.txt") : k \in 0..2} \subseteq fs.files
  /\ JunkFilesIn(fs) = {}

(* the position of name n in the listing of its directory *)
position(n) == CHOOSE i \in 1..Len(order) : order[i] = n

(* C10: removeJunk never rejects; a missing root is not logged as an       *)
(* error; every other filesystem error is logged as an error; and a failure *)
(* inside one subdirectory does not stop the walk of the entries that       *)
(* follow it in its parent.                                                 *)
NeverRejects == ~ lastJunk.rejected

MissingRootSilent == Root \notin lastJunk.before.dirs => lastJunk.errors = {}

OtherErrorsLogged ==
  \A r \in lastJunk.raised :
    ~ (r.dir = Root /\ Root \notin lastJunk.before.dirs)
      => r.dir \in lastJunk.errors

SiblingsStillWalked ==
  \A r \in lastJunk.raised :
    r.dir # Root =>
      \A p \in lastJunk.before.dirs \cup lastJunk.before.files :
        (parentOf(p) = parentOf(r.dir)
           /\ position(baseName(p)) > position(baseName(r.dir)))
          => p \in lastJunk.visited

C10_ErrorsLoggedWalkContinues ==
  lastJunk.called =>
    /\ NeverRejects
    /\ MissingRootSilent
    /\ OtherErrorsLogged
    /\ SiblingsStillWalked

(* Of C10, the three parts other than the logging of every error hold *)
C10_Parts_ExceptLogging ==
  lastJunk.called => NeverRejects /\ MissingRootSilent /\ SiblingsStillWalked

----------------------------------------------------------------------------
(* Properties of updateJsonVersionsInDir, checked on the recorded call     *)
(* (SpecJson)                                                               *)

(* every key named version, at every depth of the value, has the value v *)
RECURSIVE versionsAre(_, _)
versionsAre(node, v) ==
  \A i \in 1..Len(node.kids) :
     /\ node.kids[i].key = "version" => node.kids[i].val = Str(v)
     /\ versionsAre(node.kids[i].val, v)

RECURSIVE hasVersionKey(_)
hasVersionKey(node) ==
  \E i \in 1..Len(node.kids) :
     node.kids[i].key = "version" \/ hasVersionKey(node.kids[i].val)

AllJsonParses(t) == \A p \in t.files : t.content[p].parses

(* C11: when every .json file under the directory parses (and no           *)
(* filesystem operation fails), after updateJsonVersionsInDir(dir, v) every *)
(* key named version, at every nesting depth inside objects and arrays, of  *)
(* every .json file at any depth under dir has the value v, and the files   *)
(* without a .json extension are unchanged.                                  *)
C11_EveryVersionKeyUpdated ==
  (jsonCall.called /\ jsonEnv.fault = NoFault /\ AllJsonParses(jsonCall.before))
    => /\ jsonFs.files = jsonCall.before.files
       /\ \A p \in jsonFs.files :
            IF isJsonFile(p)
            THEN versionsAre(jsonFs.content[p].doc, jsonEnv.newVersion)
            ELSE jsonFs.content[p] = jsonCall.before.content[p]

(* a call on a tree whose subdirectory holds a .json file with a version   *)
(* key inside an array, next to a file with another extension that also     *)
(* holds a version key                                                       *)
C11_Witness ==
  /\ jsonCall.called
  /\ jsonEnv.fault = NoFault
  /\ AllJsonParses(jsonCall.before)
  /\ \E p \in jsonCall.before.files :
       /\ SubSeq(p, 1, Len(p) - 1) = JsonSub
       /\ jsonCall.before.content[p].doc = Docs[3]
       /\ jsonFs.content[p].doc # Docs[3]
  /\ \E p \in jsonCall.before.files :
       ~ isJsonFile(p) /\ hasVersionKey(jsonCall.before.content[p].doc)

jsonPosition(name) == CHOOSE i \in 1..Len(jsonEnv.order) : jsonEnv.order[i] = name

(* C12: a .json file that cannot be parsed is logged and left unchanged,   *)
(* and every other .json file under the directory (before and after it in   *)
(* the listing, in the same and in other subdirectories) is still           *)
(* rewritten; the function never rejects, and a missing directory is a      *)
(* silent no-op.                                                             *)
C12_UnparsableSkippedOthersRewritten ==
  jsonCall.called =>
    /\ ~ jsonCall.rejected
    /\ jsonCall.before.dirs = {} =>
         /\ jsonFs = jsonCall.before
         /\ jsonCall.warned = {} /\ jsonCall.errors = {}
    /\ jsonEnv.fault = NoFault =>
         \A p \in jsonCall.before.files :
            isJsonFile(p) =>
              IF jsonCall.before.content[p].parses
              THEN /\ p \in jsonCall.written
                   /\ jsonFs.content[p].doc =
                        updateVersionInObject(jsonCall.before.content[p].doc,
                                              jsonEnv.newVersion)
              ELSE /\ p \in jsonCall.warned
                   /\ jsonFs.content[p] = jsonCall.before.content[p]

(* a call on a tree with a file that does not parse, listed before another *)
(* .json file of its directory, and a .json file in the other directory     *)
C12_Witness ==
  /\ jsonCall.called
  /\ \E p, q, r \in jsonCall.before.files :
       /\ ~ jsonCall.before.content[p].parses
       /\ isJsonFile(q) /\ q # p
       /\ SubSeq(q, 1, Len(q) - 1) = SubSeq(p, 1, Len(p) - 1)
       /\ jsonPosition(baseName(p)) < jsonPosition(baseName(q))
       /\ isJsonFile(r) /\ SubSeq(r, 1, Len(r) - 1) # SubSeq(p, 1, Len(p) - 1)
       /\ p \in jsonCall.warned
       /\ {q, r} \subseteq jsonCall.written

(* a call on a missing directory *)
C12_WitnessMissing == jsonCall.called /\ jsonCall.before.dirs = {}

----------------------------------------------------------------------------
(* Properties of pruneArchives, checked on the recorded call (SpecPrune) *)

entriesOf(d) == {d.entries[i] : i \in 1..Len(d.entries)}

(* C13: with N entries, K = config.archivesToKeep and no failing           *)
(* filesystem operation: if N > K exactly the K entries with the latest     *)
(* modification times remain and the other N - K are deleted; if N <= K     *)
(* nothing is deleted; a missing archive directory changes nothing and      *)
(* logs no error.                                                            *)
C13_KeepsLatestK ==
  (pruneCall.called /\ pruneEnv.fault = NoFault) =>
    LET before == entriesOf(pruneCall.before)
        after == entriesOf(archiveDir)
        N == Len(pruneCall.before.entries)
        K == pruneEnv.keep
    IN /\ pruneCall.errors = {}
       /\ after \subseteq before
       /\ pruneCall.deleted = {e.file : e \in before \ after}
       /\ N > K =>
            /\ Cardinality(after) = K
            /\ Cardinality(pruneCall.deleted) = N - K
            /\ \A e \in after, d \in before \ after : e.mtimeMs >= d.mtimeMs
       /\ N <= K => after = before
       /\ ~ pruneCall.before.exists => archiveDir = pruneCall.before

(* a call on a directory with one entry more than the default keep count,  *)
(* listed oldest first                                                       *)
C13_Witness ==
  /\ pruneCall.called
  /\ pruneEnv.fault = NoFault
  /\ pruneEnv.keep = archivesToKeep
  /\ Len(pruneCall.before.entries) = archivesToKeep + 1
  /\ pruneCall.before.entries[1].mtimeMs = 1
  /\ pruneCall.deleted = {pruneCall.before.entries[1].file}

(* the entries beyond the keep count, newest first *)
beyondKeep == slice(sortNewestFirst(pruneCall.before.entries), pruneEnv.keep)

(* C14: when deleting one entry beyond the keep count fails, the failure   *)
(* is logged and every other entry beyond the keep count is still deleted.  *)
C14_FailedDeletionDoesNotStopPruning ==
  (/\ pruneCall.called
   /\ pruneEnv.fault.op = "rm"
   /\ \E i \in 1..Len(beyondKeep) : <<beyondKeep[i].file>> = pruneEnv.fault.path)
    => /\ pruneCall.errors # {}
       /\ \A i \in 1..Len(beyondKeep) :
            <<beyondKeep[i].file>> # pruneEnv.fault.path
              => beyondKeep[i].file \in pruneCall.deleted

----------------------------------------------------------------------------
(* Properties of mergePSfolders, checked on the recorded call (SpecMerge) *)

(* the files of tree below dir, as paths relative to dir, with contents *)
contentsOf(dir, tree) ==
  {[path |-> SubSeq(p, Len(dir) + 1, Len(p)), holds |-> tree.content[p]] :
     p \in {q \in tree.files : isPrefix(dir, q)}}

schemaBound == {"user_schema_root", "MessageKeys"}

(* C19: for every configured folder other than WEB_ROOT whose source       *)
(* exists, when no operation fails: afterwards the destination holds        *)
(* exactly the contents of the source (nothing of the previous destination  *)
(* survives); the destination is schemaDir/name for user_schema_root and    *)
(* MessageKeys and buildDir/name for every other folder; no schema-bound    *)
(* folder is written to the build tree and no build-bound folder to the     *)
(* schema tree.                                                              *)
C19_DestinationEqualsSource ==
  (mergeCall.called /\ mergeEnv.fault = NoFault) =>
    \A f \in FolderSet :
       LET own == Append(IF f \in schemaBound THEN schemaDir ELSE buildDir, f)
           other == Append(IF f \in schemaBound THEN buildDir ELSE schemaDir, f)
       IN /\ (f # "WEB_ROOT" /\ sourcePath(f) \in mergeCall.before.dirs) =>
               contentsOf(own, mergeFs)
                 = contentsOf(sourcePath(f), mergeCall.before)
          /\ contentsOf(other, mergeFs) = contentsOf(other, mergeCall.before)
          /\ other \in mergeFs.dirs <=> other \in mergeCall.before.dirs

(* a merge that replaced the previous contents of a schema-bound and of a  *)
(* build-bound destination                                                   *)
C19_Witness ==
  /\ mergeCall.called
  /\ mergeEnv.fault = NoFault
  /\ \A f \in {"user_schema_root", "queries_root"} :
       /\ sourcePath(f) \in mergeCall.before.dirs
       /\ Append(destPath(f), "g.txt") \in mergeCall.before.files
       /\ Append(destPath(f), "g.txt") \notin mergeFs.files
       /\ f \in mergeCall.merged

webRoot == Append(buildDir, "WEB_ROOT")

(* C20: WEB_ROOT is never pre-cleared: every file that was under           *)
(* buildDir/WEB_ROOT before the merge and has no same-path counterpart in   *)
(* the source still exists unchanged afterwards, alongside the copied       *)
(* source files.                                                             *)
C20_WebRootIsAdditive ==
  mergeCall.called =>
    /\ \A e \in contentsOf(webRoot, mergeCall.before) :
         (\A s \in contentsOf(sourcePath("WEB_ROOT"), mergeCall.before) :
             s.path # e.path)
           => e \in contentsOf(webRoot, mergeFs)
    /\ "WEB_ROOT" \in mergeCall.merged =>
         contentsOf(sourcePath("WEB_ROOT"), mergeCall.before)
           \subseteq contentsOf(webRoot, mergeFs)
    /\ (mergeEnv.fault = NoFault
          /\ sourcePath("WEB_ROOT") \in mergeCall.before.dirs)
         => "WEB_ROOT" \in mergeCall.merged

(* a merge of WEB_ROOT onto an existing build-time WEB_ROOT *)
C20_Witness ==
  /\ mergeCall.called
  /\ "WEB_ROOT" \in mergeCall.merged
  /\ Append(webRoot, "g.txt") \in mergeCall.before.files
  /\ mergeFs.content[Append(webRoot, "g.txt")] = "old"
  /\ mergeFs.content[Append(webRoot, "f.txt")] = "new"
  /\ mergeCall.before.content[Append(webRoot, "f.txt")] = "old"

----------------------------------------------------------------------------
(* Properties of a run of main (SpecPipeline) *)

archiveNames == {archiveDir.entries[i].file : i \in 1..Len(archiveDir.entries)}

logged(level, msg) ==
  \E i \in 1..Len(logs) : logs[i].level = level /\ logs[i].msg = msg

(* the version the run computes from the descriptor it read at its start *)
expectedVersion == getNewVersion(mem.currentVersion, clock).result

(* package.json and the root and build manifests carry v, and the two     *)
(* archives are named after the name of the root manifest and v            *)
carriedBy(v) ==
  /\ disk.pkg = v
  /\ disk.root.present /\ disk.root.version = v
  /\ disk.build.present /\ disk.build.version = v
  /\ zipFileName(slugify(disk.root.name), v) \in archiveNames
  /\ <<"D", "A", "T", "A", "-">> \o zipFileName(slugify(disk.root.name), v)
       \in archiveNames

(* C15: after a run of main that reaches Done, package.json, the           *)
(* project-root plugin.xml, the build-directory plugin.xml and the schema   *)
(* plugin.xml all carry the same version, getNewVersion(descriptor version  *)
(* at start), and the two archives are named slugify(manifest name)-v.zip   *)
(* and DATA-slugify(manifest name)-v.zip.                                   *)
C15_DoneCarriesOneVersion ==
  stage = "Done" =>
    /\ carriedBy(expectedVersion)
    /\ disk.schema.present /\ disk.schema.version = expectedVersion

(* The schema variant could not be written (lines 263-265): the run goes  *)
(* on with the name of the in-memory manifest still carrying " DATA".        *)
schemaVariantFailed == logged("error", "Could not create schema XML variant")

(* the stage whose failure ended the run: the catch of main logs last *)
failedIn == logs[Len(logs)].stage

(* the failures that reject the read of package.json, lines 391-392 *)
descriptorFails ==
  fails("readFile", packageJson, fault) \/ fails("parse", packageJson, fault)

(* the failures updatePackageVersions lets through, lines 274-292 and 238-243 *)
updateFails ==
  \/ fails("writeFile", packageJson, fault)
  \/ fails("readFile", rootXml, fault)
  \/ fails("parse", rootXml, fault)
  \/ fails("writeFile", rootXml, fault)
  \/ fails("writeFile", buildXml, fault)

noLaterStage(failed) ==
  /\ \A i \in 1..Len(calls) : stageIndex(calls[i].stage) <= stageIndex(failed)
  /\ \A i \in 1..Len(logs) : stageIndex(logs[i].stage) <= stageIndex(failed)
  /\ \A i \in 1..Len(calls) :
       calls[i].op \notin {"mergePSfolders", "removeJunk", "createWriteStream",
                           "pruneArchives", "cp", "unlink"}
  /\ streams = {}
  /\ ~ mem.copied.done

(* C16: if ReadDescriptor or UpdateManifestsAndVersion fails, main logs    *)
(* the failure, rejects with the triggering error and executes no later     *)
(* stage.                                                                    *)
C16_FatalStageStopsTheRun ==
  /\ descriptorFails /\ stage # "ReadDescriptor"
       => stage = "Failed" /\ failedIn = "ReadDescriptor"
  /\ updateFails /\ stage \notin {"ReadDescriptor", "ComputeVersion",
                                   "EnsureDirectories", "UpdateManifestsAndVersion"}
       => stage = "Failed" /\ failedIn = "UpdateManifestsAndVersion"
  /\ stage = "Failed" /\ failedIn \in {"ReadDescriptor", "UpdateManifestsAndVersion"}
       => /\ logged("error", "--- BUILD FAILED ---")
          /\ logs[Len(logs)].level = "error" /\ logs[Len(logs)].error = fault
          /\ outcome = [state |-> "rejected", error |-> fault]
          /\ fault # NoFault
          /\ noLaterStage(failedIn)

(* a run that could not write the build manifest, after package.json and   *)
(* the root manifest were written                                            *)
C16_Witness ==
  /\ stage = "Failed"
  /\ failedIn = "UpdateManifestsAndVersion"
  /\ fault = [op |-> "writeFile", path |-> buildXml, code |-> "EACCES"]
  /\ disk.pkg = mem.newVersion

(* a run that could not parse package.json *)
C16_WitnessDescriptor ==
  /\ stage = "Failed"
  /\ failedIn = "ReadDescriptor"
  /\ fault = [op |-> "parse", path |-> packageJson, code |-> "SyntaxError"]

(* the operations of prepareBuildDirectory, in the order they were called *)
prepareCalls ==
  SelectSeq(calls, LAMBDA c : c.stage = "PrepareBuildTree"
                              /\ c.op \in {"mergePSfolders", "removeJunk", "unlink"})

stagesInOrder(entries) ==
  \A i, j \in 1..Len(entries) :
    i < j => stageIndex(entries[i].stage) <= stageIndex(entries[j].stage)

(* every stage before the current one has completed: no archive is still   *)
(* being written unless the run is in the stage that builds it               *)
previousStagesComplete ==
  /\ streams # {} => /\ stage \in {"BuildPrimaryArchive", "BuildSchemaArchive"}
                     /\ \A s \in streams : mem.waiting = s.file
  /\ stage \in {"PruneArchives", "Done"} => streams = {}
  /\ stagesInOrder(calls) /\ stagesInOrder(logs)
  /\ stage \notin {"ReadDescriptor", "ComputeVersion", "EnsureDirectories",
                    "UpdateManifestsAndVersion", "PrepareBuildTree", "Failed"}
       => [i \in 1..Len(prepareCalls) |-> prepareCalls[i].op]
            = <<"mergePSfolders", "removeJunk", "unlink">>

(* C17: main executes its stages strictly in this order, at most once      *)
(* each, and each stage completes before the next begins: ReadDescriptor,   *)
(* ComputeVersion, EnsureDirectories, UpdateManifestsAndVersion,            *)
(* PrepareBuildTree (merge, then purge, then template cleanup),             *)
(* FrameworkCopy, BuildPrimaryArchive, BuildSchemaArchive, PruneArchives,   *)
(* Done.                                                                     *)
C17_StagesStrictlyInOrder ==
  /\ [][stage' # stage => stage' = "Failed" \/ stage' = nextStage(stage)]_vars
  /\ [] previousStagesComplete

(* a complete run that wrote both archives *)
C17_Witness ==
  /\ stage = "Done"
  /\ Len(SelectSeq(calls, LAMBDA c : c.op = "createWriteStream")) = 2
  /\ Len(prepareCalls) = 3
  /\ \E i \in 1..Len(calls) : calls[i].stage = "FrameworkCopy"

(* what the FrameworkCopy stage logged and called *)
copyLogs == SelectSeq(logs, LAMBDA l : l.stage = "FrameworkCopy")

copyCalls == SelectSeq(calls, LAMBDA c : c.stage = "FrameworkCopy")

afterFrameworkCopy ==
  \/ stage \in {"BuildPrimaryArchive", "BuildSchemaArchive", "PruneArchives", "Done"}
  \/ stage = "Failed" /\ failedIn \in {"BuildPrimaryArchive", "BuildSchemaArchive"}

svelteBuildExists == svelteSourceDir \in projectFs.dirs

copyFault ==
  fails("access", svelteSourceDir, fault) \/ fails("cp", svelteSourceDir, fault)

C18_WitnessMissing ==
  /\ plan.projectType = "svelte" /\ ~ svelteBuildExists
  /\ stage = "Done" /\ Len(copyLogs) = 1

(* a project of another type, run to the end *)
C18_WitnessOtherType ==
  plan.projectType # "svelte" /\ svelteBuildExists /\ stage = "Done"

(* a svelte project whose build output was copied *)
C18_WitnessCopied ==
  mem.copied.done /\ stage = "Done" /\ mem.psXML.name = LongName

----------------------------------------------------------------------------
(* Further properties of mergePSfolders (SpecMerge) *)

dirsOf(dir, tree) == {q \in tree.dirs : isPrefix(dir, q)}

sourceMissing(f) == sourcePath(f) \notin mergeCall.before.dirs

(* C21: when the source folder of a configured name does not exist, that   *)
(* folder is skipped without any log entry and the existing destination     *)
(* folder, in the build or the schema tree, is left exactly as it was.       *)
C21_MissingSourceSkippedSilently ==
  mergeCall.called =>
    \A f \in FolderSet :
       sourceMissing(f) =>
         /\ f \notin mergeCall.errors
         /\ f \notin mergeCall.merged
         /\ \A d \in {Append(buildDir, f), Append(schemaDir, f)} :
              /\ contentsOf(d, mergeFs) = contentsOf(d, mergeCall.before)
              /\ dirsOf(d, mergeFs) = dirsOf(d, mergeCall.before)

(* user_schema_root and WEB_ROOT have no source and a destination from an  *)
(* earlier build, while queries_root is merged                               *)
C21_Witness ==
  /\ mergeCall.called
  /\ sourceMissing("user_schema_root") /\ sourceMissing("WEB_ROOT")
  /\ Append(destPath("user_schema_root"), "g.txt") \in mergeFs.files
  /\ Append(destPath("WEB_ROOT"), "g.txt") \in mergeFs.files
  /\ "queries_root" \in mergeCall.merged

(* the folder whose access, delete or copy fails, if that operation is     *)
(* reached                                                                   *)
failingFolders ==
  {f \in FolderSet :
     /\ ~ sourceMissing(f)
     /\ \/ mergeEnv.fault.op \in {"access", "cp"}
              /\ mergeEnv.fault.path = sourcePath(f)
        \/ mergeEnv.fault.op = "rm" /\ mergeEnv.fault.path = destPath(f)
              /\ clearsDestination(f)}

(* C22: mergePSfolders is best-effort per folder: every failure while      *)
(* merging one folder other than the source folder being missing (any error *)
(* raised by the delete or the copy, whatever its error code) is logged as  *)
(* an error for that folder, the remaining folders of the list are still    *)
(* processed in order, and mergePSfolders never rejects.                    *)
C22_EveryMergeFailureLogged ==
  mergeCall.called =>
    /\ ~ mergeCall.rejected
    /\ failingFolders \subseteq mergeCall.errors
    /\ \A f \in FolderSet \ failingFolders :
         ~ sourceMissing(f) => f \in mergeCall.merged

(* the same, for the failures whose code is not ENOENT *)
MergeFailureLoggedUnlessENOENT ==
  mergeEnv.fault.code # "ENOENT" => C22_EveryMergeFailureLogged

----------------------------------------------------------------------------
(* Further properties of a run of main (SpecPipeline) *)

(* the name the schema manifest is to carry for the manifest name n *)
schemaNameOf(n) ==
  (IF Len(n) > 35 THEN SubSeq(n, 1, 35) ELSE n) \o <<" ", "D", "A", "T", "A">>

truncationWarned(entries) ==
  \E i \in 1..Len(entries) :
    /\ entries[i].stage = "UpdateManifestsAndVersion"
    /\ entries[i].level = "warn"
    /\ entries[i].msg = "Plugin name truncated for schema XML"

schemaWritten(entries) ==
  \E i \in 1..Len(entries) : entries[i].msg = "Created schema-only plugin.xml"

(* C23: writeXmlVariants: the project-root and build-directory plugin.xml  *)
(* receive identical bytes carrying the new version, the unmodified name    *)
(* and the access_request element; the schema plugin.xml carries the name   *)
(* truncated to its first 35 characters when it is longer than 35 (a name   *)
(* of exactly 35 is not truncated and no warning is logged) followed by the *)
(* literal ' DATA', so at most 40 characters, and has no access_request     *)
(* element.                                                                  *)
C23_ManifestVariants ==
  [][(stage = "UpdateManifestsAndVersion" /\ stage' = nextStage(stage)) =>
       /\ disk'.root = disk'.build
       /\ disk'.root = [disk.root EXCEPT !.version = mem.newVersion]
       /\ disk'.root.access
       /\ truncationWarned(logs') <=> Len(disk.root.name) > 35
       /\ schemaWritten(logs') =>
            /\ disk'.schema.present
            /\ disk'.schema.version = mem.newVersion
            /\ disk'.schema.name = schemaNameOf(disk.root.name)
            /\ Len(disk'.schema.name) <= 40
            /\ ~ disk'.schema.access
       /\ ~ schemaWritten(logs') => disk'.schema = disk.schema]_vars

(* the variants of a manifest whose name has 36 characters were written *)
C23_Witness ==
  /\ stage = "PrepareBuildTree"
  /\ schemaWritten(logs)
  /\ disk.root.name = LongName
  /\ Len(disk.schema.name) = 40
  /\ disk.root.version = mem.newVersion

(* the variants of a manifest whose name has exactly 35 characters *)
C23_WitnessLimit ==
  /\ stage = "PrepareBuildTree"
  /\ schemaWritten(logs)
  /\ disk.root.name = LimitName
  /\ Len(disk.schema.name) = 40
  /\ ~ truncationWarned(logs)

(* updatePackageVersions has returned to main *)
afterUpdate ==
  \/ stage \in {"PrepareBuildTree", "FrameworkCopy", "BuildPrimaryArchive",
                 "BuildSchemaArchive", "PruneArchives", "Done"}
  \/ stage = "Failed" /\ failedIn \in {"BuildPrimaryArchive", "BuildSchemaArchive"}

(* the names main is to give the two archives of this run *)
runArchiveNames ==
  {zipFileName(slugify(disk.root.name), mem.newVersion),
   <<"D", "A", "T", "A", "-">> \o zipFileName(slugify(disk.root.name), mem.newVersion)}

(* C24: after writeXmlVariants returns, whether the schema variant was     *)
(* written or its generation failed, the in-memory manifest name equals the *)
(* name it had before the call, so the framework copy target and both       *)
(* archive file names are built from the un-suffixed, un-truncated manifest  *)
(* name and never contain ' DATA'.                                           *)
C24_NameRestoredAfterVariants ==
  afterUpdate =>
    /\ mem.psXML.name = disk.root.name
    /\ mem.copied.done => mem.copied.to = slugify(disk.root.name)
    /\ \A s \in streams : s.file \in runArchiveNames
    /\ stage = "Done" => runArchiveNames \subseteq archiveNames

(* the same, for the runs whose schema variant was written *)
NameRestoredWhenSchemaWritten ==
  ~ schemaVariantFailed => C24_NameRestoredAfterVariants

(* the stage whose archive stream fails in this run, if it is reached *)
streamFailsIn ==
  IF fault.op # "zip" THEN "none"
  ELSE IF fault.path = buildDir THEN "BuildPrimaryArchive" ELSE "BuildSchemaArchive"

skipLogged(st) ==
  \E i \in 1..Len(logs) :
    logs[i].stage = st /\ logs[i].msg = "Skipping archive creation"

(* C25: any I/O failure while opening or writing an archive in             *)
(* createPluginZip, whatever its error code, while the source folder        *)
(* exists, is a fatal abort: createPluginZip rejects, main rejects, and no  *)
(* later stage runs (after a primary-archive failure neither the schema     *)
(* archive nor pruning is executed); only a non-existent source folder is   *)
(* skipped as a no-op that creates no archive file.                         *)
C25_ArchiveFailureIsFatal ==
  /\ streamFailsIn # "none" =>
       /\ stage # "Failed" => stageIndex(stage) <= stageIndex(streamFailsIn)
       /\ stage = "Failed" =>
            /\ failedIn = streamFailsIn
            /\ outcome = [state |-> "rejected", error |-> zipError(fault.path)]
            /\ \A i \in 1..Len(calls) :
                 stageIndex(calls[i].stage) <= stageIndex(streamFailsIn)
            /\ \A i \in 1..Len(calls) : calls[i].op # "pruneArchives"
            /\ streams = {}
  /\ \A st \in {"BuildPrimaryArchive", "BuildSchemaArchive"} :
       skipLogged(st) =>
         (IF st = "BuildPrimaryArchive" THEN buildDir ELSE schemaDir)
           \notin projectFs.dirs

(* the same, for the failures whose code is not ENOENT *)
ArchiveFailureFatalUnlessENOENT ==
  fault.code # "ENOENT" => C25_ArchiveFailureIsFatal

(* the stream of the schema archive failed with ENOSPC after the primary   *)
(* archive was written                                                       *)
ArchiveFailureWitness ==
  /\ stage = "Failed" /\ failedIn = "BuildSchemaArchive"
  /\ fault.code = "ENOSPC"
  /\ Len(archiveDir.entries) = 1

(* the stage in which the failing operation of this run is called, for the *)
(* stages other than ReadDescriptor, UpdateManifestsAndVersion and the      *)
(* archives; "none" when the operation is not one of theirs or is not       *)
(* reached                                                                   *)
softFailureIn ==
  IF fault.op = "mkdir" THEN "EnsureDirectories"
  ELSE IF \/ fails("cp", sourcePath("WEB_ROOT"), fault)
          \/ fails("readdir", buildDir, fault)
          \/ fails("unlink", indexPath, fault)
  THEN "PrepareBuildTree"
  ELSE IF /\ plan.projectType = "svelte" /\ svelteBuildExists
          /\ copyFault
  THEN "FrameworkCopy"
  ELSE IF fails("readdir", archivePath, fault) THEN "PruneArchives"
  ELSE "none"

errorLoggedIn(st) ==
  \E i \in 1..Len(logs) : logs[i].stage = st /\ logs[i].level = "error"

(* C26: a failure in EnsureDirectories, PrepareBuildTree, the framework    *)
(* copy or PruneArchives is logged and the run proceeds to the next stage   *)
(* and still reaches Done; main does not reject because of it.              *)
C26_OtherFailuresAreNotFatal ==
  softFailureIn # "none" =>
    /\ stage # "Failed"
    /\ outcome.state # "rejected"
    /\ stage = "Done" => errorLoggedIn(softFailureIn)

(* the same, for the stages after EnsureDirectories *)
FailuresAfterEnsureAreNotFatal ==
  fault.op # "mkdir" => C26_OtherFailuresAreNotFatal

(* a run that reached Done although the copy of WEB_ROOT failed *)
SoftFailureWitness ==
  /\ stage = "Done"
  /\ softFailureIn = "PrepareBuildTree"
  /\ fault.op = "cp"

----------------------------------------------------------------------------
(* Further properties of pruneArchives (SpecPrune) *)

(* the listing with the entries at i and i + 1 returned in the other order *)
swapped(entries, i) ==
  [k \in 1..Len(entries) |->
     IF k = i THEN entries[i + 1] ELSE IF k = i + 1 THEN entries[i] ELSE entries[k]]

(* what survives pruneArchives when the directory is listed as entries *)
survivors(entries) ==
  entriesOf(pruneArchives([exists |-> TRUE, entries |-> entries],
                          pruneEnv.keep, NoFault).dir)

(* C27: pruneArchives is deterministic under ties: for the same set of     *)
(* (name, modification time) entries, the set of entries that survive       *)
(* pruning is the same whatever order the directory listing returns them    *)
(* in, including when entries around the keep boundary have equal           *)
(* modification times.                                                       *)
C27_SurvivorsIndependentOfListingOrder ==
  (pruneCall.called /\ pruneCall.before.exists /\ pruneEnv.fault = NoFault) =>
    \A i \in 1..(Len(pruneCall.before.entries) - 1) :
       survivors(swapped(pruneCall.before.entries, i)) = entriesOf(archiveDir)

tiesAtBoundary ==
  LET sorted == sortNewestFirst(pruneCall.before.entries)
      K == pruneEnv.keep
  IN Len(sorted) > K /\ sorted[K].mtimeMs = sorted[K + 1].mtimeMs

(* the same, when the entries on both sides of the keep boundary differ in *)
(* modification time                                                         *)
SurvivorsIndependentWithoutTies ==
  ~ tiesAtBoundary => C27_SurvivorsIndependentOfListingOrder

(* the default keep count, and the two oldest of eleven archives have the  *)
(* same modification time: the one listed first survives                    *)
TieAtDefaultBoundary ==
  /\ pruneCall.called /\ pruneEnv.fault = NoFault
  /\ pruneEnv.keep = archivesToKeep
  /\ tiesAtBoundary
  /\ pruneCall.deleted = {"b.zip"}
  /\ survivors(swapped(pruneCall.before.entries, 1)) # entriesOf(archiveDir)

----------------------------------------------------------------------------
(* Further properties of successive runs (Spec) *)

versionTuple(v) == <<segVal(v, 1), segVal(v, 2), segVal(v, 3)>>

(* the lexicographic order on (year, month, patch) *)
lexLess(a, b) ==
  \/ a[1] < b[1]
  \/ a[1] = b[1] /\ a[2] < b[2]
  \/ a[1] = b[1] /\ a[2] = b[2] /\ a[3] < b[3]

(* the (year, month) of the version v is not later than the one of now *)
notLaterThan(v, now) ==
  \/ segVal(v, 1) < now.year % 100
  \/ segVal(v, 1) = now.year % 100 /\ segVal(v, 2) <= now.month

(* the clock did not go back and stayed in its century *)
clockAdvances(before, now) ==
  /\ before.year \div 100 = now.year \div 100
  /\ \/ before.year < now.year
     \/ before.year = now.year /\ before.month <= now.month

(* the descriptor carries a version written at the clock reading now *)
writtenAt(v, now) ==
  segVal(v, 1) = now.year % 100 /\ segVal(v, 2) = now.month

(* C28: over any sequence of runs that reach Done with a non-decreasing    *)
(* clock inside one century, starting from a valid version whose            *)
(* (year, month) is not later than today's, the version written by each run  *)
(* is strictly greater than the version written by the previous run in the   *)
(* lexicographic order on (year, month, patch); two runs in the same month   *)
(* never produce the same version.  Stated on one run: the first run starts  *)
(* from a version not later than its clock, a later run from the version a   *)
(* completed run wrote at the previous clock reading; the run writes a       *)
(* greater version, of its own (year, month).                                *)
C28_VersionsStrictlyIncrease ==
  [][\A now \in Clocks, failAt \in FailPoints :
       LET out == main(files, archives, now, failAt)
       IN (/\ runs' = runs + 1 /\ clock' = now
           /\ files' = out.files /\ archives' = out.archives
           /\ ~ out.rejected
           /\ IF runs = 0 THEN notLaterThan(files.pkg, now)
              ELSE writtenAt(files.pkg, clock) /\ clockAdvances(clock, now))
          => /\ lexLess(versionTuple(files.pkg), versionTuple(files'.pkg))
             /\ files'.pkg # files.pkg
             /\ writtenAt(files'.pkg, now)]_vars

(* two completed runs in July 2025, from 25.07.99 *)
C28_Witness ==
  /\ runs = 2
  /\ clock = [year |-> 2025, month |-> 7]
  /\ files.pkg = <<"2", "5", ".", "0", "7", ".", "1", "0", "1">>
  /\ files.schema = files.pkg
  /\ Cardinality(archives) = 4

(* a completed run in January 2026 after one in December 2025 *)
C28_WitnessYearChange ==
  /\ runs = 2
  /\ clock = [year |-> 2026, month |-> 1]
  /\ files.pkg = <<"2", "6", ".", "0", "1", ".", "0", "1">>
  /\ archiveName("DATA-", <<"2", "5", ".", "1", "2", ".", "3", "1">>) \in archives

----------------------------------------------------------------------------
(* Properties of the end of a run of main (SpecPipeline) *)

runEnded == stage \in {"Done", "Failed"}

(* C29: the version bump is all-or-nothing across the descriptor and the   *)
(* manifest: at the end of every run, whether it reached Done or aborted in *)
(* UpdateManifestsAndVersion (for example because plugin.xml could not be   *)
(* read or parsed), the version in package.json equals the version in the   *)
(* project-root plugin.xml, provided they were equal when the run started.  *)
C29_BumpIsAllOrNothing ==
  runEnded => disk.pkg = disk.root.version

(* the same, for the runs in which the read, the parse and the write of    *)
(* the root plugin.xml do not fail                                           *)
BumpCompleteUnlessManifestFails ==
  fault.path # rootXml => C29_BumpIsAllOrNothing

(* plugin.xml could not be parsed: package.json carries the new version,   *)
(* plugin.xml the old one                                                    *)
BumpHalfDone ==
  /\ stage = "Failed" /\ failedIn = "UpdateManifestsAndVersion"
  /\ fault = [op |-> "parse", path |-> rootXml, code |-> "SyntaxError"]
  /\ disk.pkg = mem.newVersion
  /\ disk.root.version = mem.currentVersion
  /\ mem.newVersion # mem.currentVersion

(* the names main gave the archives of this run, lines 405-407 *)
createdNames ==
  {zipFileName(slugify(mem.psXML.name), mem.newVersion),
   schemaZipFileName(zipFileName(slugify(mem.psXML.name), mem.newVersion))}

archivesCreated ==
  Len(SelectSeq(logs, LAMBDA l : l.msg = "Archive created"))

(* C30: every run that reaches Done has created exactly two archives, the  *)
(* primary one and the DATA one (the schema directory always exists after   *)
(* EnsureDirectories), and both archives created by this run are still      *)
(* present in the archive directory after PruneArchives, whatever older     *)
(* entries the directory held, while the directory holds at most            *)
(* archivesToKeep entries.                                                   *)
C30_BothArchivesSurvivePruning ==
  stage = "Done" =>
    /\ archivesCreated = 2
    /\ schemaDir \in projectFs.dirs
    /\ createdNames \subseteq archiveNames
    /\ Cardinality(createdNames) = 2
    /\ Len(archiveDir.entries) <= archivesToKeep

(* the same, for the runs in which no archive stream fails with ENOENT and *)
(* the archive directory can be listed                                       *)
BothArchivesSurviveUnlessSkipped ==
  (~ (fault.op = "zip" /\ fault.code = "ENOENT")
     /\ ~ fails("readdir", archivePath, fault))
    => C30_BothArchivesSurvivePruning

(* a run that reached Done without its primary archive *)
DoneWithoutPrimaryArchive ==
  /\ stage = "Done"
  /\ fault = [op |-> "zip", path |-> buildDir, code |-> "ENOENT"]
  /\ archivesCreated = 1
  /\ zipFileName(slugify(mem.psXML.name), mem.newVersion) \notin archiveNames

(* a run that pruned the oldest of nine earlier archives to keep its two *)
PrunedToKeepBoth ==
  /\ stage = "Done" /\ fault = NoFault
  /\ Len(archiveDir.entries) = archivesToKeep
  /\ createdNames \subseteq archiveNames
  /\ oldArchive(1).file \notin archiveNames

====
